---- MODULE Spec2Model ----
(***************************************************************************)
(* A model of abbyy-to-epub3: the ABBYY parser (parse_abbyy.py), the       *)
(* helpers of utils.py and the header/footer detector and image overlap    *)
(* check of create_epub.py.                                                *)
(*                                                                         *)
(* Python dicts are functions from keys (strings) to values; a key that is *)
(* absent is outside the DOMAIN.  Python strings that the code inspects    *)
(* character by character are sequences of one-character strings.          *)
(***************************************************************************)
EXTENDS Integers, Sequences, FiniteSets, TLC

VARIABLES
    pc,               \* position of the driver (parse_abbyy / craft_html / a call)
    nsmap,            \* namespace URIs declared on the document's first element
    version,          \* AbbyyParser.version
    ns,               \* AbbyyParser.ns
    fr_version,       \* metadata['fr-version']
    metadata,         \* the entries of metadata that parse_metadata writes
    paragraphs,       \* AbbyyParser.paragraphs == Ebook.paragraphs
    fontStyles,       \* AbbyyParser.fontStyles
    blocks,           \* AbbyyParser.blocks == Ebook.blocks
    page_no,          \* AbbyyParser.page_no
    newpage,          \* AbbyyParser.newpage
    pages_support,    \* metadata['PAGES_SUPPORT']
    pics_by_page,     \* metadata['pics_by_page']
    tree,             \* children of the root of the tree iterparse is building
    elem,             \* the page element of the pending 'end' event
    hist,             \* history: the page last handed to process_pages
    err,              \* the exception that ended the run, "" when none
    firsts,           \* Ebook.firsts
    lasts,            \* Ebook.lasts
    headers_present,  \* Ebook.headers_present
    footers_present,  \* Ebook.footers_present
    pagenums_found,   \* Ebook.pagenums_found
    rpagenums_found,  \* Ebook.rpagenums_found
    cfg,              \* the thresholds read from config.ini
    picnum,           \* Ebook.picnum
    images,           \* what make_image returned for each block it was given
    pages,            \* Ebook.pages: the scandata leaves and their page types
    chapters,         \* Ebook.chapters: title and content of each chapter
    endnotes,         \* craft_html: the notes gathered for the chapter
    noteref,          \* craft_html: the number of the next note
    last_row,         \* Ebook.last_row
    last_cell,        \* Ebook.last_cell
    blocks_index,     \* craft_html: index of the block last handled
    pagetype,         \* craft_html: page type of the block last handled
    prev_pagetype,    \* craft_html: page type before that
    arg,              \* argument of a function called on its own
    result            \* what that call returned

parserVars == <<nsmap, version, ns, fr_version, metadata, paragraphs, fontStyles,
                page_no, newpage, pages_support, tree, elem, hist, err>>
sharedVars == <<blocks, pics_by_page>>
ebookVars  == <<firsts, lasts, headers_present, footers_present, pagenums_found,
                rpagenums_found, cfg, picnum, images>>
renderVars == <<pages, chapters, endnotes, noteref, last_row, last_cell,
                blocks_index, pagetype, prev_pagetype>>
callVars   == <<arg, result>>
vars == <<pc, parserVars, sharedVars, ebookVars, renderVars, callVars>>

-----------------------------------------------------------------------------
(* Bounds of the model.                                                    *)

MaxLen == 4          \* longest list handed to is_increasing
MaxVal == 3          \* largest list element handed to is_increasing
MaxPages == 2        \* pages of a document
MaxBlocks == 2       \* blocks of a page of mixed blocks
MaxParas == 2        \* paragraphs of a page of Text blocks
MaxTablePages == 1   \* pages of a document of tables
MaxRows == 2         \* rows of a table
MaxCells == 2        \* cells of a row
MaxCellParas == 2    \* paragraphs of a cell
MaxPics == 2         \* Picture blocks of a book
MaxLinePages == 3    \* pages of a book handed to the header/footer detector
MaxTerms == 3        \* children of the root of the metadata document
MaxElems == 3        \* elements of a list handed to add_last_text
MaxGapPages == 4     \* pages of a book some of whose pages have no text
MaxLeafs == 3        \* <page> entries of a scandata file, and leaf numbers
MaxXmlLen == 4       \* characters of a text handed to sanitize_xml
MaxRenderPages == 3  \* pages of a book handed to craft_html
MaxRenderBlocks == 1 \* blocks of such a page

-----------------------------------------------------------------------------
(* Python dicts and lists.                                                 *)

EmptyDict == [k \in {} |-> ""]

Has(d, k) == k \in DOMAIN d

Put(d, k, v) == [x \in DOMAIN d \cup {k} |-> IF x = k THEN v ELSE d[x]]

RECURSIVE Concat(_)
Concat(ss) == IF ss = <<>> THEN <<>> ELSE Head(ss) \o Concat(Tail(ss))

RECURSIVE SeqsUpTo(_, _)
SeqsUpTo(S, n) ==
    IF n = 0 THEN {<<>>}
    ELSE LET shorter == SeqsUpTo(S, n - 1)
         IN  shorter \cup {Append(s, x) : s \in {t \in shorter : Len(t) = n - 1}, x \in S}

NonEmptySeqsUpTo(S, n) == SeqsUpTo(S, n) \ {<<>>}

-----------------------------------------------------------------------------
(* utils.py                                                                *)

\* is_increasing with the comparison weakened to a > b (a plausible slip).
RECURSIVE is_increasing_gt(_)
is_increasing_gt(l) ==
    IF Len(l) < 2 THEN TRUE
    ELSE IF l[1] > l[2] THEN FALSE
    ELSE is_increasing_gt(Tail(l))

\* for a, b in zip(l, l[1:]): if a >= b: return False; return True
RECURSIVE is_increasing(_)
is_increasing(l) ==
    IF Len(l) < 2 THEN TRUE
    ELSE IF l[1] >= l[2] THEN FALSE
    ELSE is_increasing(Tail(l))

Whitespace == {" ", "\n", "\t"}

\* The character U+00AC, which ABBYY writes for an end-of-line hyphen.
NotSign == "U+00AC"

RECURSIVE lstrip(_)
lstrip(t) == IF t # <<>> /\ Head(t) \in Whitespace THEN lstrip(Tail(t)) ELSE t

RECURSIVE rstrip(_)
rstrip(t) ==
    IF t # <<>> /\ t[Len(t)] \in Whitespace THEN rstrip(SubSeq(t, 1, Len(t) - 1)) ELSE t

\* str.strip()
strip(t) == rstrip(lstrip(t))

\* str.replace(old, new): leftmost, non-overlapping occurrences; old is not empty.
RECURSIVE Replace(_, _, _)
Replace(t, old, new) ==
    IF Len(t) < Len(old) THEN t
    ELSE IF SubSeq(t, 1, Len(old)) = old
         THEN new \o Replace(SubSeq(t, Len(old) + 1, Len(t)), old, new)
         ELSE <<Head(t)>> \o Replace(Tail(t), old, new)

EntAmp  == <<"&", "a", "m", "p", ";">>
EntLt   == <<"&", "l", "t", ";">>
EntGt   == <<"&", "g", "t", ";">>
EntQuot == <<"&", "q", "u", "o", "t", ";">>
EntApos == <<"&", "a", "p", "o", "s", ";">>

sanitize_xml(text) ==
    LET t1 == Replace(text, <<"&">>, EntAmp)
        t2 == Replace(t1, <<"<">>, EntLt)
        t3 == Replace(t2, <<">">>, EntGt)
        t4 == Replace(t3, <<"\"">>, EntQuot)
    IN  Replace(t4, <<"'">>, EntApos)

\* dirtify_xml(text): its fourth replacement goes from the quotation mark to
\* the entity, as sanitize_xml's does.
dirtify_xml(text) ==
    LET t1 == Replace(text, EntAmp, <<"&">>)
        t2 == Replace(t1, EntLt, <<"<">>)
        t3 == Replace(t2, EntGt, <<">">>)
        t4 == Replace(t3, <<"\"">>, EntQuot)
    IN  Replace(t4, EntApos, <<"'">>)

\* gettext(elem): the element's text followed by the text of its children.
\* A <par> is given by the texts of its <line> children; the tails between
\* them are file whitespace, which gettext strips to nothing.
gettext(para) == Concat(para.lines)

-----------------------------------------------------------------------------
(* constants.py and the documents the parser reads.                        *)

ABBYY_NS == "http://www.abbyy.com/FineReader_xml/FineReader10-schema-v1.xml"
OLD_NS   == "http://www.abbyy.com/FineReader_xml/FineReader6-schema-v1.xml"
OTHER_NS == "http://www.w3.org/2001/XMLSchema-instance"

\* The nsmap of the first element: any set of these URIs.
NsMaps == SUBSET {ABBYY_NS, OLD_NS, OTHER_NS}

\* <paragraphStyle> elements: their attributes and their <fontStyle> children.
\* The FineReader10 schema makes role a required attribute.
StyleElems == <<
    [attrib |-> [id |-> "sText", role |-> "text", mainFontStyleId |-> "f1"],
     children |-> <<[id |-> "f1", ff |-> "Times", fs |-> "10."]>>],
    [attrib |-> [id |-> "sRt", role |-> "rt", mainFontStyleId |-> "f2"],
     children |-> <<[id |-> "f2", ff |-> "Arial", fs |-> "8."]>>],
    [attrib |-> [id |-> "sHead", role |-> "heading", roleLevel |-> "1",
                 mainFontStyleId |-> "f1"],
     children |-> <<>>] >>

\* The style sections a document may have: every declared style, in either
\* order, or none (the FineReader6 dialect has no styles).
StyleDocs == {StyleElems, <<>>}

DeclaredStyles(doc) == {doc[i].attrib.id : i \in DOMAIN doc}

\* Paragraph texts, as the sequence of their <line> texts.
ParLines == { <<<<"a">>>>, <<<<" ">>>>, <<<<" ", "b">>, <<"&">>>> }

\* A <par>: its style attribute and its lines.  "sMissing" is declared nowhere.
TextPars ==
    [style : {"sText"}, lines : ParLines]
    \cup [style : {"sRt", "sHead", "sMissing"}, lines : {<<<<"a">>>>}]
    \cup [style : {"sMissing"}, lines : {<<<<" ">>>>}]

\* The attributes of a <block>.
BlockAttr(type, l, t, r, b) ==
    [blockType |-> type, l |-> l, t |-> t, r |-> r, b |-> b]

\* A <block> element: attributes, <par> descendants (Text) and <row>
\* descendants (Table); a row is its cells, a cell the <par>s of its <text>.
TextBlock(pars) ==
    [attrib |-> BlockAttr("Text", 0, 0, 50, 50), pars |-> pars, rows |-> <<>>]

TableBlock(rows) ==
    [attrib |-> BlockAttr("Table", 0, 0, 50, 50), pars |-> <<>>, rows |-> rows]

OtherBlock(type, l, t, r, b) ==
    [attrib |-> BlockAttr(type, l, t, r, b), pars |-> <<>>, rows |-> <<>>]

\* A <page> element.
Page(blks) == [width |-> 1000, height |-> 2000, blocks |-> blks]

-----------------------------------------------------------------------------
(* The pages the specifications draw from.                                 *)

Par(style, t) == [style |-> style, lines |-> <<t>>]

\* Pages of mixed blocks: Text blocks of one paragraph, pictures, a
\* separator, and one-cell tables.
GenBlocks ==
    { TextBlock(<<Par("sText", <<"a">>)>>), TextBlock(<<Par("sText", <<" ">>)>>),
      TextBlock(<<Par("sRt", <<"a">>)>>), TextBlock(<<Par("sHead", <<"b">>)>>),
      TextBlock(<<Par("sMissing", <<"a">>)>>),
      OtherBlock("Picture", 0, 0, 100, 100), OtherBlock("Picture", 10, 10, 50, 50),
      OtherBlock("Separator", 0, 60, 100, 61),
      TableBlock(<< << <<Par("sText", <<"a">>)>> >> >>) }

Pages == {Page(bs) : bs \in SeqsUpTo(GenBlocks, MaxBlocks)}

\* Pages of Text blocks: up to MaxParas paragraphs, in one block or split
\* over two.
TextPages ==
    LET pss == NonEmptySeqsUpTo(TextPars, MaxParas)
    IN  {Page(<<TextBlock(ps)>>) : ps \in pss}
        \cup {Page(<<TextBlock(SubSeq(x[1], 1, x[2])),
                     TextBlock(SubSeq(x[1], x[2] + 1, Len(x[1])))>>) :
                 x \in {y \in pss \X (1..MaxParas) : y[2] < Len(y[1])}}

\* Pages of one table: rows of cells of paragraphs, empty or not.
CellParas == {Par("sText", <<>>), Par("sText", <<"a">>)}
CellChoices == NonEmptySeqsUpTo(CellParas, MaxCellParas)
RowChoices == NonEmptySeqsUpTo(CellChoices, MaxCells)
TablePages == {Page(<<TableBlock(rows)>>) : rows \in NonEmptySeqsUpTo(RowChoices, MaxRows)}

-----------------------------------------------------------------------------
(* parse_abbyy.py                                                          *)

\* An add_last_text that stops at the first element, from the end, that
\* carries the page's number, whatever its type.
add_last_text_stop(blks, n, page) ==
    IF n < 1 THEN blks
    ELSE LET first == CHOOSE k \in 0..n :
                        /\ k > 0 => (~Has(blks[k], "page_no") \/ blks[k].page_no = page)
                        /\ \A m \in (k + 1)..n :
                              Has(blks[m], "page_no") /\ blks[m].page_no # page
         IN  IF first > 0 /\ Has(blks[first], "page_no") /\ blks[first].type = "text"
             THEN [blks EXCEPT ![first] = Put(blks[first], "last", TRUE)]
             ELSE blks

\* add_last_text, scanning blocks[1..n] from its end.
RECURSIVE add_last_text_from(_, _, _)
add_last_text_from(blks, n, page) ==
    IF n < 1 THEN blks
    ELSE LET e == blks[n]
         IN  IF ~Has(e, "page_no") THEN blks
             ELSE IF e.page_no = page /\ Has(e, "type") /\ e.type = "text"
                  THEN [blks EXCEPT ![n] = Put(e, "last", TRUE)]
                  ELSE add_last_text_from(blks, n - 1, page)

add_last_text(blks, page) == add_last_text_from(blks, Len(blks), page)

is_block_type(blockattr, blocktype) ==
    Has(blockattr, "blockType") /\ blockattr.blockType = blocktype

\* A find_namespace that takes a document of neither namespace for FR10.
find_namespace_guess(abbyy_nsm) ==
    IF OLD_NS \in abbyy_nsm /\ ABBYY_NS \notin abbyy_nsm THEN <<"FR6", OLD_NS, FALSE>>
    ELSE <<"FR10", ABBYY_NS, FALSE>>

\* find_namespace on the first element: <<version, ns, raised>>.
find_namespace(abbyy_nsm) ==
    IF ABBYY_NS \in abbyy_nsm THEN <<"FR10", ABBYY_NS, FALSE>>
    ELSE IF OLD_NS \in abbyy_nsm THEN <<"FR6", OLD_NS, FALSE>>
    ELSE <<"", "", TRUE>>

\* What fast_iter leaves of the children of an element by the time the
\* element's own 'end' event is handled: each child was cleared when its 'end'
\* event was handled and the siblings before it were deleted.
ChildrenAfterFastIter(children) ==
    IF children = <<>> THEN <<>> ELSE <<EmptyDict>>

\* elem.get(key): None when the attribute is absent.
Get(attrib, key) == IF Has(attrib, key) THEN attrib[key] ELSE "None"

RECURSIVE CollectFontStyles(_, _)
CollectFontStyles(fs, children) ==
    IF children = <<>> THEN fs
    ELSE CollectFontStyles(Put(fs, Get(Head(children), "id"), Head(children)),
                           Tail(children))

\* decompose_xml for a <paragraphStyle> element; st = [paragraphs, fontStyles].
decompose_xml(st, e) ==
    [paragraphs |-> Put(st.paragraphs, Get(e.attrib, "id"), e.attrib),
     fontStyles |-> CollectFontStyles(st.fontStyles,
                                      ChildrenAfterFastIter(e.children))]

RECURSIVE StylePassOver(_, _)
StylePassOver(st, doc) ==
    IF doc = <<>> THEN st ELSE StylePassOver(decompose_xml(st, Head(doc)), Tail(doc))

\* The collation loop of parse_abbyy: the font style is looked up under the
\* literal key 'mainFontStyleId'.
Collate(pars, fs) ==
    [id \in DOMAIN pars |->
        IF Has(pars[id], "mainFontStyleId") /\ Has(fs, "mainFontStyleId")
        THEN Put(pars[id], "fontstyle", fs["mainFontStyleId"])
        ELSE pars[id]]

\* parse_block without the test for running headers and footers.
SkipRole_never(role) == FALSE

\* if role == 'rt': continue
SkipRole(role) == role = "rt"

\* The test flagging the first element instead of the last.
IsLastElem_first(this, total) == this = 1

\* if this_row == rows_in_table (this_cell == cells_in_row,
\* this_contents == paras_in_cell): the element is flagged last_table_elem.
IsLastElem(this, total) == this = total

\* The Text branch of parse_block, over the <par>s left to handle.
\* st = [blocks, paragraphs, newpage, pics, err]
RECURSIVE ParseTextParas(_, _, _, _)
ParseTextParas(st, paras, pno, ver) ==
    IF paras = <<>> \/ st.err # "" THEN st
    ELSE
    LET para    == Head(paras)
        para_id == para.style
        pgs     == IF Has(st.paragraphs, para_id) THEN st.paragraphs
                   ELSE Put(st.paragraphs, para_id, EmptyDict)
        st1     == [st EXCEPT !.paragraphs = pgs]
        text    == strip(gettext(para))
    IN  IF text = <<>> THEN ParseTextParas(st1, Tail(paras), pno, ver)
        ELSE IF ver = "FR10" /\ ~Has(pgs[para_id], "role")
             THEN [st1 EXCEPT !.err = "KeyError"]
        ELSE
        LET role == IF ver = "FR10" THEN pgs[para_id].role ELSE "FR6"
            b0   == [type |-> "Text", page_no |-> pno,
                     text |-> Replace(sanitize_xml(text), <<NotSign, "\n">>, <<>>),
                     role |-> role, style |-> pgs[para_id]]
            b1   == IF st.newpage THEN Put(b0, "first", TRUE) ELSE b0
            st2  == [st1 EXCEPT !.newpage = FALSE]
        IN  IF SkipRole(role) THEN ParseTextParas(st1, Tail(paras), pno, ver)
            ELSE IF role = "heading"
                 THEN IF Has(pgs[para_id], "roleLevel")
                      THEN ParseTextParas(
                             [st2 EXCEPT !.blocks = Append(st.blocks,
                                 Put(b1, "heading", pgs[para_id].roleLevel))],
                             Tail(paras), pno, ver)
                      ELSE [st2 EXCEPT !.blocks = Append(st.blocks, b1),
                                       !.err = "KeyError"]
            ELSE ParseTextParas([st2 EXCEPT !.blocks = Append(st.blocks, b1)],
                                Tail(paras), pno, ver)

\* The <par>s of one table cell.
RECURSIVE ParseCellParas(_, _, _, _, _, _)
ParseCellParas(st, paras, this_contents, paras_in_cell, blockattr, pno) ==
    IF paras = <<>> THEN st
    ELSE
    LET text == strip(gettext(Head(paras)))
        b0   == [type |-> "TableText", style |-> blockattr, page_no |-> pno,
                 text |-> sanitize_xml(text)]
        b1   == IF IsLastElem(this_contents, paras_in_cell)
                THEN Put(b0, "last_table_elem", TRUE) ELSE b0
    IN  IF text = <<>> /\ paras_in_cell > 1
        THEN ParseCellParas(st, Tail(paras), this_contents, paras_in_cell,
                            blockattr, pno)
        ELSE ParseCellParas([st EXCEPT !.blocks = Append(st.blocks, b1),
                                       !.newpage = FALSE],
                            Tail(paras), this_contents + 1, paras_in_cell,
                            blockattr, pno)

\* The cells of one table row.
RECURSIVE ParseCells(_, _, _, _, _, _)
ParseCells(st, cells, this_cell, cells_in_row, blockattr, pno) ==
    IF cells = <<>> THEN st
    ELSE
    LET b0  == [type |-> "TableCell", style |-> blockattr, page_no |-> pno]
        b1  == IF IsLastElem(this_cell, cells_in_row)
               THEN Put(b0, "last_table_elem", TRUE) ELSE b0
        st1 == [st EXCEPT !.blocks = Append(st.blocks, b1)]
        st2 == ParseCellParas(st1, Head(cells), 1, Len(Head(cells)), blockattr, pno)
    IN  ParseCells(st2, Tail(cells), this_cell + 1, cells_in_row, blockattr, pno)

\* The rows of one table.
RECURSIVE ParseRows(_, _, _, _, _, _)
ParseRows(st, rows, this_row, rows_in_table, blockattr, pno) ==
    IF rows = <<>> THEN st
    ELSE
    LET b0  == [type |-> "TableRow", style |-> blockattr, page_no |-> pno]
        b1  == IF IsLastElem(this_row, rows_in_table)
               THEN Put(b0, "last_table_elem", TRUE) ELSE b0
        st1 == [st EXCEPT !.blocks = Append(st.blocks, b1)]
        st2 == ParseCells(st1, Head(rows), 1, Len(Head(rows)), blockattr, pno)
    IN  ParseRows(st2, Tail(rows), this_row + 1, rows_in_table, blockattr, pno)

\* The last branch of parse_block: any block that is neither Text nor Table.
\* `page_no in pics_by_page` is a key test on the initial dict, which stays
\* empty, and a membership test of a number in a list of blocks afterwards:
\* it is never true, so the index is replaced by a one-element list.
ParseOther(st, blockattr, pno) ==
    LET d   == [type |-> Get(blockattr, "blockType"), style |-> blockattr,
                page_no |-> pno]
        st1 == [st EXCEPT !.blocks = Append(st.blocks, d)]
    IN  IF is_block_type(blockattr, "Picture")
        THEN [st1 EXCEPT !.pics = [kind |-> "list", items |-> <<d>>]]
        ELSE st1

parse_block(st, block, pno, ver, pagewidth, pageheight) ==
    LET blockattr == Put(Put(block.attrib, "pagewidth", pagewidth),
                         "pageheight", pageheight)
    IN  IF st.err # "" THEN st
        ELSE IF is_block_type(blockattr, "Text")
             THEN ParseTextParas(st, block.pars, pno, ver)
        ELSE IF is_block_type(blockattr, "Table")
             THEN ParseRows(
                    [st EXCEPT !.blocks = Append(st.blocks,
                        [type |-> "Table", style |-> blockattr, page_no |-> pno])],
                    block.rows, 1, Len(block.rows), blockattr, pno)
        ELSE ParseOther(st, blockattr, pno)

RECURSIVE ParseBlocks(_, _, _, _, _, _)
ParseBlocks(st, blks, pno, ver, pagewidth, pageheight) ==
    IF blks = <<>> THEN st
    ELSE ParseBlocks(parse_block(st, Head(blks), pno, ver, pagewidth, pageheight),
                     Tail(blks), pno, ver, pagewidth, pageheight)

\* A process_pages that advances the page counter before it writes the page
\* marker.
process_pages_counted_first(st, page, pno, ver, support) ==
    LET st1 == ParseBlocks([st EXCEPT !.newpage = TRUE], page.blocks, pno, ver,
                           page.width, page.height)
        st2 == [st1 EXCEPT !.blocks = add_last_text(st1.blocks, pno)]
    IN  IF st1.err # "" THEN st1
        ELSE IF ~support THEN st2
        ELSE IF st2.blocks = <<>> THEN [st2 EXCEPT !.err = "IndexError"]
        ELSE IF st2.blocks[Len(st2.blocks)].type # "Page"
             THEN [st2 EXCEPT !.blocks =
                       Append(st2.blocks, [type |-> "Page", text |-> pno + 1])]
        ELSE st2

\* process_pages(elem).  elem.iterchildren() is an iterator object and so is
\* never false: the early return for a page without blocks is not taken.
\* st = [blocks, paragraphs, newpage, pics, err]; the page counter advances
\* exactly when err stays "".
process_pages(st, page, pno, ver, support) ==
    LET st1 == ParseBlocks([st EXCEPT !.newpage = TRUE], page.blocks, pno, ver,
                           page.width, page.height)
        st2 == [st1 EXCEPT !.blocks = add_last_text(st1.blocks, pno)]
    IN  IF st1.err # "" THEN st1
        ELSE IF ~support THEN st2
        ELSE IF st2.blocks = <<>> THEN [st2 EXCEPT !.err = "IndexError"]
        ELSE IF st2.blocks[Len(st2.blocks)].type # "Page"
             THEN [st2 EXCEPT !.blocks =
                       Append(st2.blocks, [type |-> "Page", text |-> pno])]
        ELSE st2

-----------------------------------------------------------------------------
(* utils.fast_iter on the tree that iterparse builds.  The tree is given   *)
(* by the children of its root, each with the number of its descendants.   *)

RECURSIVE SumLens(_)
SumLens(ss) == IF ss = <<>> THEN 0 ELSE Len(Head(ss)) + SumLens(Tail(ss))

\* Descendants of a <block>: its pars, or its rows, their cells and pars.
BlockNodes(b) ==
    Len(b.pars) + Len(b.rows) + SumLens(b.rows) + SumLens(Concat(b.rows))

RECURSIVE PageNodes(_)
PageNodes(blks) ==
    IF blks = <<>> THEN 0 ELSE 1 + BlockNodes(Head(blks)) + PageNodes(Tail(blks))

\* fast_iter without elem.clear() (a plausible slip).
ClearElem_skipped(t) == t

\* elem.clear() on the last child of the root, the element of the event.
ClearElem(t) == [t EXCEPT ![Len(t)].nodes = 0]

\* for ancestor in elem.xpath('ancestor-or-self::*'):
\*     while ancestor.getprevious() is not None: del ancestor.getparent()[0]
\* The root has no siblings; the page loses every sibling before it.
DropPrevious(t) == <<t[Len(t)]>>

-----------------------------------------------------------------------------
(* create_epub.py: the overlap check of make_image.                        *)

\* image_dim(block): (left, top, right, bottom)
image_dim(block) == <<block.style.l, block.style.t, block.style.r, block.style.b>>

\* all(i >= j for i, j in zip(box, new_box))
AllGeq(box, new_box) == \A i \in 1..4 : box[i] >= new_box[i]

\* for each_pic in self.metadata['pics_by_page']: the elements of the list
\* parse_block has left there (the keys of the dict, none, before any Picture).
RECURSIVE Encapsulated(_, _)
Encapsulated(block, pics) ==
    IF pics = <<>> THEN FALSE
    ELSE IF Head(pics) = block THEN Encapsulated(block, Tail(pics))
    ELSE IF AllGeq(image_dim(block), image_dim(Head(pics))) THEN TRUE
    ELSE Encapsulated(block, Tail(pics))

\* make_image(block), given whether the page's scan exists and whether the
\* image processor succeeds: what becomes of the picture.
make_image(block, pics, fileExists, cropOk) ==
    IF block.page_no = 0 THEN "cover"
    ELSE IF ~fileExists THEN "nofile"
    ELSE IF Encapsulated(block, pics.items) THEN "suppressed"
    ELSE IF ~cropOk THEN "failed"
    ELSE "rendered"

-----------------------------------------------------------------------------
(* create_epub.py: headers, footers and page numbers.                      *)

DigitChars == {"0", "1", "2", "3", "4", "5", "6", "7", "8", "9"}
RomanChars == {"x", "i", "c", "m", "l", "v", "d"}

\* re.IGNORECASE, which identify_headers_footers_pagenos passes to
\* Pattern.search in the place of its second parameter, pos.
IGNORECASE == 2

\* re.compile('^[chars]+$').search(line, pos): '^' matches at the real start
\* of the string only, '$' at its end or before a newline that ends it.
AnchoredSearch(chars, line, pos) ==
    LET body == IF line # <<>> /\ line[Len(line)] = "\n"
                THEN SubSeq(line, 1, Len(line) - 1) ELSE line
    IN  /\ pos = 0
        /\ body # <<>>
        /\ \A i \in DOMAIN body : body[i] \in chars

DigitValue(c) ==
    CASE c = "0" -> 0 [] c = "1" -> 1 [] c = "2" -> 2 [] c = "3" -> 3
      [] c = "4" -> 4 [] c = "5" -> 5 [] c = "6" -> 6 [] c = "7" -> 7
      [] c = "8" -> 8 [] c = "9" -> 9

\* An int() that reads every line as 0.
IntOf_zero(line) == 0

\* int(line) of a line that matched ^\d+$
RECURSIVE IntOf(_)
IntOf(line) ==
    IF line = <<>> THEN 0
    ELSE IF line[Len(line)] = "\n" THEN IntOf(SubSeq(line, 1, Len(line) - 1))
    ELSE 10 * IntOf(SubSeq(line, 1, Len(line) - 1)) + DigitValue(line[Len(line)])

RomanValue(c) ==
    CASE c = "i" -> 1 [] c = "v" -> 5 [] c = "x" -> 10 [] c = "l" -> 50
      [] c = "c" -> 100 [] c = "d" -> 500 [] c = "m" -> 1000

\* roman2int(line) of a line of RomanChars: a numeral counts against the sum
\* when a larger one follows it.
RECURSIVE roman2int(_)
roman2int(line) ==
    IF line = <<>> THEN 0
    ELSE IF Len(line) > 1 /\ RomanValue(line[1]) < RomanValue(line[2])
         THEN roman2int(Tail(line)) - RomanValue(line[1])
    ELSE roman2int(Tail(line)) + RomanValue(line[1])

\* The length of the longest common subsequence of two strings.
RECURSIVE Lcs(_, _)
Lcs(a, b) ==
    IF a = <<>> \/ b = <<>> THEN 0
    ELSE IF Head(a) = Head(b) THEN 1 + Lcs(Tail(a), Tail(b))
    ELSE IF Lcs(Tail(a), b) >= Lcs(a, Tail(b)) THEN Lcs(Tail(a), b)
    ELSE Lcs(a, Tail(b))

\* int(round(n / d)) with Python's rounding of halves to the even integer
RoundDiv(n, d) ==
    LET q == n \div d
        r == n % d
    IN  IF 2 * r > d THEN q + 1
        ELSE IF 2 * r = d THEN q + (q % 2)
        ELSE q

\* fuzz.ratio(s1, s2): 0 when either string is empty, otherwise 100 times
\* twice the number of matching characters over the two lengths, rounded.
fuzz_ratio(s1, s2) ==
    IF s1 = <<>> \/ s2 = <<>> THEN 0
    ELSE RoundDiv(200 * Lcs(s1, s2), Len(s1) + Len(s2))

\* A search for Roman letters that starts at the start of the line.
romans_search_at_start(line) == AnchoredSearch(RomanChars, line, 0)

\* romans.search(line, re.IGNORECASE)
romans_search(line) == AnchoredSearch(RomanChars, line, IGNORECASE)

\* The loop over self.blocks of identify_headers_footers_pagenos: acc holds
\* mylines, candidate_digits, candidate_romans, the local num (<<>> while it
\* is unbound) and the exception that ended the loop.  undecodable is the set
\* of lines on which roman2int raises ValueError.
RECURSIVE ScanLines(_, _, _, _)
ScanLines(blks, placement, acc, undecodable) ==
    IF blks = <<>> \/ acc.err # "" THEN acc
    ELSE
    LET block == Head(blks)
    IN  IF ~Has(block, placement)
        THEN ScanLines(Tail(blks), placement, acc, undecodable)
        ELSE
        LET line      == block.text
            ourpageno == block.page_no
            entry     == Put(EmptyDict, "text", line)
            pageno    == AnchoredSearch(DigitChars, line, 0)
            rpageno   == romans_search(line)
            num       == IF line \in undecodable THEN acc.num
                         ELSE <<roman2int(line)>>
            marked    == Put(acc.mylines, ourpageno,
                             Put(entry, "ocr_roman", placement))
        IN  IF rpageno
            THEN IF num = <<>>
                 THEN [acc EXCEPT !.mylines = marked,
                                  !.err = "UnboundLocalError"]
                 ELSE ScanLines(Tail(blks), placement,
                        [acc EXCEPT !.mylines = marked,
                                    !.num = num,
                                    !.romans = Append(@, num[1])],
                        undecodable)
            ELSE IF pageno
            THEN ScanLines(Tail(blks), placement,
                    [acc EXCEPT !.mylines = Put(@, ourpageno,
                                                Put(entry, "ocr_digits", placement)),
                                !.digits = Append(@, IntOf(line))],
                    undecodable)
            ELSE ScanLines(Tail(blks), placement,
                    [acc EXCEPT !.mylines = Put(@, ourpageno, entry)],
                    undecodable)

\* The loop "identify match ratio": every page's entry gets the ratio against
\* the next page's text and against the text two pages on, where there is one.
WithRatios(mylines) ==
    [k \in DOMAIN mylines |->
        LET v  == mylines[k]
            v1 == IF (k + 1) \in DOMAIN mylines
                  THEN Put(v, "ratio_consecutive",
                           fuzz_ratio(v.text, mylines[k + 1].text))
                  ELSE v
        IN  IF (k + 2) \in DOMAIN mylines
            THEN Put(v1, "ratio_alternating",
                     fuzz_ratio(v.text, mylines[k + 2].text))
            ELSE v1]

\* fuzz_consecutive and fuzz_alternating: the sum of the ratios under a key.
RECURSIVE SumRatios(_, _, _)
SumRatios(mylines, key, ks) ==
    IF ks = {} THEN 0
    ELSE LET k == CHOOSE p \in ks : TRUE
         IN  (IF Has(mylines[k], key) THEN mylines[k][key] ELSE 0)
             + SumRatios(mylines, key, ks \ {k})

\* What identify_headers_footers_pagenos(placement) finds "present": the
\* averages are compared as sums against the threshold times the divisor.
PatternFound(mylines, threshold, before) ==
    LET n    == Cardinality(DOMAIN mylines)
        cons == SumRatios(mylines, "ratio_consecutive", DOMAIN mylines)
        alt  == SumRatios(mylines, "ratio_alternating", DOMAIN mylines)
    IN  IF n > 2
        THEN IF cons > threshold * (n - 1) THEN "consecutive"
             ELSE IF alt > threshold * (n - 2) THEN "alternating"
             ELSE before
        ELSE before

\* The averages the method logs, each as <<sum, divisor>>.
LoggedAverages(mylines) ==
    LET n == Cardinality(DOMAIN mylines)
    IN  IF n > 2
        THEN [consecutive |-> <<SumRatios(mylines, "ratio_consecutive", DOMAIN mylines), n - 1>>,
              alternating |-> <<SumRatios(mylines, "ratio_alternating", DOMAIN mylines), n - 2>>]
        ELSE [consecutive |-> <<0, 0>>, alternating |-> <<0, 0>>]

\* The first two tests of is_header_footer: the page's line of this placement
\* is an identified Roman or digit page number.
is_page_number(block, placement) ==
    LET mylines   == IF placement = "first" THEN firsts ELSE lasts
        ourpageno == block.page_no
    IN  /\ Has(mylines, ourpageno)
        /\ \/ /\ rpagenums_found
              /\ Has(mylines[ourpageno], "ocr_roman")
              /\ mylines[ourpageno].ocr_roman = placement
           \/ /\ pagenums_found
              /\ Has(mylines[ourpageno], "ocr_digits")
              /\ mylines[ourpageno].ocr_digits = placement

\* is_header_footer(block, placement) on the Ebook's present state
is_header_footer(block, placement) ==
    LET mylines   == IF placement = "first" THEN firsts ELSE lasts
        ourpageno == block.page_no
    IN  /\ Has(mylines, ourpageno)
        /\ \/ is_page_number(block, placement)
           \/ /\ headers_present = "consecutive"
              /\ Has(mylines[ourpageno], "ratio_consecutive")
              /\ mylines[ourpageno].ratio_consecutive >= cfg.FUZZY_HEADER_THRESHOLD
           \/ /\ headers_present = "alternating"
              /\ Has(mylines[ourpageno], "ratio_alternating")
              /\ mylines[ourpageno].ratio_alternating >= cfg.FUZZY_HEADER_THRESHOLD

-----------------------------------------------------------------------------
(* The metadata document and parse_metadata.                               *)

\* The children of the root of _meta.xml: a tag and its text.
MetaTerms == {[tag |-> t, text |-> x] :
                 t \in {"title", "language", "subject"}, x \in {"a", "b"}}

MetaDocs == SeqsUpTo(MetaTerms, MaxTerms)

\* A metadata document with a title and nothing else.
TitleOnly == <<[tag |-> "title", text |-> "a"]>>

\* A Python list, and a Python str, as values of the metadata dict.
PyList(items) == [kind |-> "list", items |-> items]
PyStr(value) == [kind |-> "str", value |-> value]

\* A loop that overwrites the entry of a tag it has met before.
AddTerm_overwrite(md, term) == Put(md, term.tag, PyList(<<term.text>>))

\* if term.tag in self.metadata: ...append(term.text)
\* else: self.metadata[term.tag] = [term.text, ]
AddTerm(md, term) ==
    IF Has(md, term.tag)
    THEN Put(md, term.tag, PyList(Append(md[term.tag].items, term.text)))
    ELSE Put(md, term.tag, PyList(<<term.text>>))

\* The loop over the terms; a str has no append.
RECURSIVE AddTerms(_, _)
AddTerms(r, doc) ==
    IF doc = <<>> \/ r.err # "" THEN r
    ELSE IF Has(r.metadata, Head(doc).tag) /\ r.metadata[Head(doc).tag].kind # "list"
         THEN [r EXCEPT !.err = "AttributeError"]
    ELSE AddTerms([r EXCEPT !.metadata = AddTerm(r.metadata, Head(doc))], Tail(doc))

\* parse_metadata: [metadata, err]
parse_metadata(md, doc) ==
    LET r == AddTerms([metadata |-> md, err |-> ""], doc)
    IN  IF r.err = "" /\ ~Has(r.metadata, "language")
        THEN [r EXCEPT !.metadata = Put(r.metadata, "language", PyStr("eng"))]
        ELSE r

-----------------------------------------------------------------------------
(* create_epub.py: make_chapter and the body of craft_html's loop.  The    *)
(* content of a chapter is the sequence of the pieces appended to it, each *)
(* a record that names its markup and carries what was formatted into it;  *)
(* of a chapter's other attributes only the title is kept.                 *)

Tag(t) == [tag |-> t]

\* The decimal numeral of a small number, as str() and format() write it.
Numerals == <<"1", "2", "3", "4", "5", "6", "7", "8", "9">>
Str(n) == IF n = 0 THEN "0" ELSE Numerals[n]

\* int() of a heading level.
LevelOf(h) == CHOOSE n \in DOMAIN Numerals : Numerals[n] = h

skippable_pages == {"Cover", "Copyright", "Color Card", "Title"}

pagetypes ==
    [contents |-> "Table of Contents", contributions |-> "Contributions",
     copyright |-> "Copyright Page", glossary |-> "Glossary", index |-> "Index",
     introduction |-> "Introduction", preface |-> "Preface",
     reference |-> "Reference", title |-> "Title Page"]

\* `n in self.pages` and self.pages[n]
InPages(od, n) == \E i \in DOMAIN od : od[i].leaf = n
PageTypeOf(od, n) == od[CHOOSE i \in DOMAIN od : od[i].leaf = n].type

\* make_chapter(heading, chapter_no): chapter_no is always the number of
\* chapters made so far plus one.
make_chapter(chs, heading) ==
    LET h == IF heading = <<>> THEN <<"Chapter ", Str(Len(chs) + 1)>> ELSE heading
    IN  Append(chs, [title |-> Replace(dirtify_xml(h), <<"\n">>, <<" ">>),
                     content |-> <<>>])

\* chapter.content += ..., chapter being the chapter made last
AddContent(chs, pieces) == [chs EXCEPT ![Len(chs)].content = @ \o pieces]

\* The font names of the documents that contain 'Serif' or 'Times', and those
\* that contain 'Sans'.
SerifNames == {"Times"}
SansNames == {}

IsStyled(block) == Has(block, "style") /\ Has(block.style, "fontstyle")

\* fstyling: the class and style attributes of the block's font.
fstyling(block) ==
    IF IsStyled(block)
    THEN LET fontstyle == block.style.fontstyle
         IN  [fclass |-> (IF Has(fontstyle, "italic") THEN <<"italic ">> ELSE <<>>)
                         \o (IF Has(fontstyle, "bold") THEN <<"bold ">> ELSE <<>>)
                         \o (IF fontstyle.ff \in SerifNames THEN <<"serif ">>
                             ELSE IF fontstyle.ff \in SansNames THEN <<"sans ">>
                             ELSE <<>>),
              fsize |-> fontstyle.fs]
    ELSE [fclass |-> <<>>, fsize |-> ""]


\* The Text branch of the loop, for a block that is not stripped.
\* st = [chapters, endnotes, noteref, last_row, last_cell, pagetype,
\*       prev_pagetype, picnum, images, err]
CraftText(st, block) ==
    LET text == block.text
        role == block.role
    IN  IF role = "footnote"
        THEN [st EXCEPT
                !.chapters = AddContent(@, <<[tag |-> "noteref",
                                              page |-> block.page_no,
                                              ref |-> st.noteref]>>),
                !.endnotes = Append(@, [tag |-> "rearnote", page |-> block.page_no,
                                        ref |-> st.noteref, text |-> text]),
                !.noteref = @ + 1]
        ELSE IF role = "tableCaption"
        THEN [st EXCEPT !.chapters =
                 AddContent(@, <<[tag |-> "caption", style |-> fstyling(block),
                                  text |-> text]>>)]
        ELSE IF role = "heading"
        THEN IF ~Has(block, "heading") THEN [st EXCEPT !.err = "KeyError"]
             ELSE IF LevelOf(block.heading) > 1
             THEN [st EXCEPT !.chapters =
                      AddContent(@, <<[tag |-> "h", lev |-> block.heading,
                                       text |-> text]>>)]
             ELSE
             LET flushed == IF st.noteref > 1
                            THEN [st EXCEPT
                                    !.chapters = AddContent(@,
                                        <<Tag("<hr /><h2>Chapter Notes</h2>")>>
                                        \o st.endnotes \o <<Tag("</ol>")>>),
                                    !.noteref = 1,
                                    !.endnotes = <<Tag("<ol>")>>]
                            ELSE st
             IN  [flushed EXCEPT !.chapters =
                     [make_chapter(flushed.chapters, text)
                        EXCEPT ![Len(flushed.chapters) + 1].content =
                           <<[tag |-> "h", lev |-> block.heading, text |-> text]>>]]
        ELSE [st EXCEPT !.chapters =
                 AddContent(@, <<[tag |-> "p", style |-> fstyling(block),
                                  text |-> text]>>)]

\* The TableText branch.
CraftTableText(st, block) ==
    LET st1 == [st EXCEPT !.chapters =
                   AddContent(@, <<[tag |-> "p", style |-> fstyling(block),
                                    text |-> block.text]>>)]
    IN  IF ~Has(block, "last_table_elem") THEN st1
        ELSE
        LET st2 == [st1 EXCEPT !.chapters = AddContent(@, <<Tag("</td>")>>)]
        IN  IF ~st2.last_cell THEN st2
            \* chapter.content + u'</tr>' builds a string and drops it
            ELSE IF ~st2.last_row THEN [st2 EXCEPT !.last_cell = FALSE]
            ELSE [st2 EXCEPT !.chapters = AddContent(@, <<Tag("</table>")>>),
                             !.last_cell = FALSE, !.last_row = FALSE]

\* One pass of the loop of craft_html over self.blocks, for one block.
craft_block(st, block, fileExists, cropOk) ==
    LET known == Has(block, "page_no") /\ InPages(pages, block.page_no)
        pt    == IF known THEN PageTypeOf(pages, block.page_no) ELSE "Normal"
        st1   == [st EXCEPT !.pagetype = pt,
                            !.prev_pagetype = IF known THEN st.pagetype ELSE @]
        type  == block.type
    IN  IF ~Has(block, "type") THEN st
        ELSE IF pt \in skippable_pages THEN st1
        ELSE IF IsStyled(block) /\ ~(Has(block.style.fontstyle, "fs")
                                      /\ Has(block.style.fontstyle, "ff"))
        THEN [st1 EXCEPT !.err = "KeyError"]
        ELSE
        LET st2 == IF pt \in DOMAIN pagetypes /\ pt # st1.prev_pagetype
                   THEN [st1 EXCEPT !.chapters = make_chapter(@, <<pagetypes[pt]>>)]
                   ELSE st1
        IN  IF type = "Text"
            THEN IF Has(block, "first") /\ is_header_footer(block, "first") THEN st2
                 ELSE IF Has(block, "last") /\ is_header_footer(block, "last") THEN st2
                 ELSE CraftText(st2, block)
            ELSE IF type = "Page"
            THEN IF /\ pages_support
                    /\ ~(st2.chapters[Len(st2.chapters)].content # <<>>
                         /\ st2.chapters[Len(st2.chapters)].content[
                              Len(st2.chapters[Len(st2.chapters)].content)].tag
                            = "pagebreak")
                 THEN [st2 EXCEPT !.chapters =
                          AddContent(@, <<[tag |-> "pagebreak",
                                           title |-> Str(block.text)]>>)]
                 ELSE st2
            ELSE IF type = "Picture" /\ pt # "Cover"
            THEN LET r == make_image(block, pics_by_page, fileExists, cropOk)
                 IN  IF r = "rendered"
                     THEN [st2 EXCEPT !.chapters =
                              AddContent(@, <<[tag |-> "img", picnum |-> st2.picnum]>>),
                                      !.picnum = @ + 1,
                                      !.images = Append(@, r)]
                     ELSE [st2 EXCEPT !.images = Append(@, r)]
            ELSE IF type \in {"Separator", "SeparatorsBox"} THEN st2
            ELSE IF type = "Table"
            THEN [st2 EXCEPT !.chapters = AddContent(@, <<Tag("<table>")>>)]
            ELSE IF type = "TableRow"
            THEN [st2 EXCEPT !.chapters = AddContent(@, <<Tag("<tr>")>>),
                             !.last_row = IF Has(block, "last_table_elem") THEN TRUE
                                          ELSE @]
            ELSE IF type = "TableCell"
            THEN [st2 EXCEPT !.chapters = AddContent(@, <<Tag("<td>")>>),
                             !.last_cell = IF Has(block, "last_table_elem") THEN TRUE
                                           ELSE @]
            ELSE IF type = "TableText" THEN CraftTableText(st2, block)
            ELSE st2

-----------------------------------------------------------------------------
(* Defaults of the variables a specification does not use.                 *)

ParserIdle ==
    /\ nsmap = {} /\ version = "" /\ ns = "" /\ fr_version = ""
    /\ metadata = EmptyDict
    /\ paragraphs = EmptyDict /\ fontStyles = EmptyDict
    /\ page_no = 0 /\ newpage = FALSE /\ pages_support = FALSE
    /\ tree = <<>> /\ elem = EmptyDict /\ hist = EmptyDict /\ err = ""

SharedIdle ==
    /\ blocks = <<>>
    /\ pics_by_page = [kind |-> "dict", items |-> <<>>]

EbookIdle ==
    /\ firsts = EmptyDict /\ lasts = EmptyDict
    /\ headers_present = "False" /\ footers_present = "unset"
    /\ pagenums_found = FALSE /\ rpagenums_found = FALSE
    /\ cfg = EmptyDict /\ picnum = 0 /\ images = <<>>

RenderIdle ==
    /\ pages = <<>> /\ chapters = <<>>
    /\ endnotes = <<>> /\ noteref = 0
    /\ last_row = FALSE /\ last_cell = FALSE
    /\ blocks_index = -1 /\ pagetype = "" /\ prev_pagetype = ""

CallIdle == arg = <<>> /\ result = "none"

-----------------------------------------------------------------------------
(* parse_abbyy: find_namespace, the style pass, then the page pass in      *)
(* which fast_iter hands every <page> to process_pages.  The callback of   *)
(* the style pass, written self.process_styles in parse_abbyy, is the      *)
(* style handler decompose_xml.                                            *)

ParserStart ==
    /\ pc = "start"
    /\ version = "" /\ ns = "" /\ fr_version = ""
    /\ metadata = EmptyDict
    /\ paragraphs = EmptyDict /\ fontStyles = EmptyDict
    /\ page_no = 0 /\ newpage = FALSE
    /\ tree = <<>> /\ elem = EmptyDict /\ hist = EmptyDict /\ err = ""
    /\ SharedIdle /\ EbookIdle /\ CallIdle /\ RenderIdle

FindNamespace ==
    /\ pc = "start"
    /\ LET r == find_namespace(nsmap)
       IN  IF r[3]
           THEN /\ pc' = "failed"
                /\ err' = "RuntimeError"
                /\ UNCHANGED <<version, ns, fr_version>>
           ELSE /\ pc' = "styles"
                /\ version' = r[1]
                /\ ns' = r[2]
                /\ fr_version' = r[1]
                /\ err' = ""
    /\ UNCHANGED <<nsmap, metadata, paragraphs, fontStyles, page_no, newpage,
                   pages_support, tree, elem, hist, sharedVars, ebookVars, renderVars,
                   callVars>>

StylePass ==
    /\ pc = "styles"
    /\ \E doc \in StyleDocs :
          LET st == StylePassOver([paragraphs |-> paragraphs,
                                   fontStyles |-> fontStyles], doc)
          IN  /\ paragraphs' = Collate(st.paragraphs, st.fontStyles)
              /\ fontStyles' = st.fontStyles
    /\ pc' = "metadata"
    /\ UNCHANGED <<nsmap, version, ns, fr_version, metadata, page_no, newpage,
                   pages_support, tree, elem, hist, err, sharedVars, ebookVars,
                   renderVars, callVars>>

\* self.parse_metadata(), between the style pass and the page pass
ParseMetadata(Docs) ==
    /\ pc = "metadata"
    /\ \E doc \in Docs :
          LET r == parse_metadata(metadata, doc)
          IN  /\ metadata' = r.metadata
              /\ err' = r.err
              /\ pc' = IF r.err = "" THEN "pages" ELSE "failed"
              /\ arg' = [doc |-> doc, metadata |-> metadata]
    /\ UNCHANGED <<nsmap, version, ns, fr_version, paragraphs, fontStyles, page_no,
                   newpage, pages_support, tree, elem, hist, sharedVars, ebookVars,
                   renderVars, result>>

\* iterparse reads on to the end of the next <page>: the page, with its
\* subtree, is now the last child of the root, behind whatever precedes the
\* first page in the document.
IterparseNext(PageSet, limit) ==
    /\ pc = "pages"
    /\ page_no < limit
    /\ \E p \in PageSet :
          /\ elem' = p
          /\ tree' = (IF tree = <<>>
                      THEN <<[kind |-> "documentData", nodes |-> 1]>> ELSE tree)
                     \o <<[kind |-> "page", nodes |-> PageNodes(p.blocks)]>>
    /\ pc' = "event"
    /\ UNCHANGED <<nsmap, version, ns, fr_version, metadata, paragraphs, fontStyles,
                   page_no, newpage, pages_support, hist, err, sharedVars,
                   ebookVars, renderVars, callVars>>

\* One iteration of fast_iter: func(elem), elem.clear(), the clean-up of the
\* ancestors.  An exception of the callback leaves fast_iter at once.
FastIterStep ==
    /\ pc = "event"
    /\ LET st == process_pages([blocks |-> blocks, paragraphs |-> paragraphs,
                                newpage |-> newpage, pics |-> pics_by_page,
                                err |-> ""],
                               elem, page_no, version, pages_support)
       IN  /\ blocks' = st.blocks
           /\ paragraphs' = st.paragraphs
           /\ newpage' = st.newpage
           /\ pics_by_page' = st.pics
           /\ err' = st.err
           /\ hist' = [page |-> elem, from |-> Len(blocks), page_no |-> page_no]
           /\ IF st.err # ""
              THEN /\ pc' = "failed"
                   /\ UNCHANGED <<page_no, tree>>
              ELSE /\ pc' = "pages"
                   /\ page_no' = page_no + 1
                   /\ tree' = DropPrevious(ClearElem(tree))
    /\ elem' = EmptyDict
    /\ UNCHANGED <<nsmap, version, ns, fr_version, metadata, fontStyles,
                   pages_support, ebookVars, renderVars, callVars>>

\* The document ends: fast_iter returns and parse_abbyy clears self.pages.
Finish ==
    /\ pc = "pages"
    /\ pc' = "done"
    /\ UNCHANGED <<parserVars, sharedVars, ebookVars, renderVars, callVars>>

\* The parser on documents of mixed pages.
Init ==
    /\ ParserStart
    /\ nsmap \in {{ABBYY_NS, OTHER_NS}, {OLD_NS}, {ABBYY_NS, OLD_NS}, {OTHER_NS}}
    /\ pages_support \in BOOLEAN

StepPage == IterparseNext(Pages, MaxPages)

StepMetadata == ParseMetadata({TitleOnly})

Next == FindNamespace \/ StylePass \/ StepMetadata \/ StepPage \/ FastIterStep \/ Finish

Spec == Init /\ [][Next]_vars

\* The parser on FineReader10 documents whose pages hold Text blocks only.
TextInit ==
    /\ ParserStart
    /\ nsmap \in {{ABBYY_NS}, {ABBYY_NS, OLD_NS}}
    /\ pages_support \in BOOLEAN

StepTextPage == IterparseNext(TextPages, MaxPages)

TextNext == FindNamespace \/ StylePass \/ StepMetadata \/ StepTextPage \/ FastIterStep \/ Finish

SpecText == TextInit /\ [][TextNext]_vars

\* The parser on documents whose pages hold one table each.
TableInit ==
    /\ ParserStart
    /\ nsmap \in {{ABBYY_NS}, {OLD_NS}}
    /\ pages_support \in BOOLEAN

StepTablePage == IterparseNext(TablePages, MaxTablePages)

TableNext == FindNamespace \/ StylePass \/ StepMetadata \/ StepTablePage \/ FastIterStep \/ Finish

SpecTable == TableInit /\ [][TableNext]_vars

-----------------------------------------------------------------------------
(* Claims about the parser.                                                *)

\* The blocks the page last handed to process_pages has added.
NewBlocks == SubSeq(blocks, hist.from + 1, Len(blocks))

RECURSIVE SelectBlocks(_, _)
SelectBlocks(blks, types) ==
    IF blks = <<>> THEN <<>>
    ELSE IF Head(blks).type \in types
         THEN <<Head(blks)>> \o SelectBlocks(Tail(blks), types)
         ELSE SelectBlocks(Tail(blks), types)

\* All <par>s of a page, in document order.
RECURSIVE PagePars(_)
PagePars(blks) == IF blks = <<>> THEN <<>> ELSE Head(blks).pars \o PagePars(Tail(blks))

\* The style id is one the style pass has recorded.
Resolves(id) == Has(paragraphs, id) /\ paragraphs[id] # EmptyDict

IsBlank(par) == \A i \in DOMAIN Concat(par.lines) : Concat(par.lines)[i] \in Whitespace

GoodPar(par) ==
    /\ ~IsBlank(par)
    /\ Resolves(par.style)
    /\ paragraphs[par.style].role # "rt"

DroppedPar(par) ==
    \/ IsBlank(par)
    \/ Resolves(par.style) /\ paragraphs[par.style].role = "rt"

RECURSIVE GoodPars(_)
GoodPars(pars) ==
    IF pars = <<>> THEN <<>>
    ELSE IF GoodPar(Head(pars)) THEN <<Head(pars)>> \o GoodPars(Tail(pars))
         ELSE GoodPars(Tail(pars))

\* C1: for a page of a FineReader10 document whose blocks are Text blocks and
\* whose paragraphs are either good (non-blank, style resolved, role not 'rt')
\* or dropped (blank, or role 'rt'), process_pages adds exactly one Text block
\* per good paragraph, in document order, each with the page's number and the
\* paragraph's trimmed, escaped text; blank and 'rt' paragraphs add none; and
\* with at least one good paragraph the call raises nothing.
C1_TextBlocksPerParagraph ==
    ( /\ hist # EmptyDict
      /\ version = "FR10"
      /\ \A i \in DOMAIN hist.page.blocks : hist.page.blocks[i].attrib.blockType = "Text"
      /\ \A i \in DOMAIN PagePars(hist.page.blocks) :
            GoodPar(PagePars(hist.page.blocks)[i]) \/ DroppedPar(PagePars(hist.page.blocks)[i]) )
    => LET good  == GoodPars(PagePars(hist.page.blocks))
           texts == SelectBlocks(NewBlocks, {"Text"})
       IN  /\ Len(good) > 0 => err = ""
           /\ Len(texts) = Len(good)
           /\ \A i \in DOMAIN texts :
                 /\ texts[i].page_no = hist.page_no
                 /\ texts[i].text = sanitize_xml(strip(Concat(good[i].lines)))
                 /\ texts[i].role = paragraphs[good[i].style].role

\* The second page, made of a padded paragraph with an ampersand, a blank one
\* and an 'rt' one in two blocks, has added exactly one Text block.
C1_Witness ==
    /\ hist # EmptyDict
    /\ version = "FR10"
    /\ hist.page_no = 1
    /\ Len(hist.page.blocks) = 2
    /\ Len(PagePars(hist.page.blocks)) = 2
    /\ \E i \in 1..2 : GoodPar(PagePars(hist.page.blocks)[i])
                       /\ Len(Concat(PagePars(hist.page.blocks)[i].lines)) = 3
    /\ \E i \in 1..2 : DroppedPar(PagePars(hist.page.blocks)[i])
    /\ Len(SelectBlocks(NewBlocks, {"Text"})) = 1
    /\ err = ""

\* C10: when a Text paragraph of a FineReader10 page names a style id that is
\* not in the style table, parse_block substitutes an empty style record,
\* raises no error on account of it and goes on with the rest of the page.
\* (Stated for documents that declare styles, and of the KeyError of the
\* style lookup alone.)
C10_UnresolvedStyleTolerated ==
    ( /\ hist # EmptyDict
      /\ version = "FR10"
      /\ Resolves("sText")
      /\ \E i \in DOMAIN PagePars(hist.page.blocks) :
            ~Resolves(PagePars(hist.page.blocks)[i].style) )
    => /\ err # "KeyError"
       /\ \A i \in DOMAIN PagePars(hist.page.blocks) :
             Has(paragraphs, PagePars(hist.page.blocks)[i].style)

\* C2: a Table block adds exactly one Table block, one TableRow per row of
\* which only the last carries last_table_elem, and per row one TableCell per
\* cell of which only the last of the row carries last_table_elem, in that
\* order; a cell whose sole paragraph is empty adds exactly one TableText
\* block, with empty text.
TableOf(page) == page.blocks[1].rows

\* <<type, flagged>> of the Table, TableRow and TableCell blocks expected.
RECURSIVE ExpectedCells(_, _)
ExpectedCells(n, total) ==
    IF n > total THEN <<>>
    ELSE <<<<"TableCell", n = total>>>> \o ExpectedCells(n + 1, total)

RECURSIVE ExpectedRows(_, _)
ExpectedRows(rows, n) ==
    IF n > Len(rows) THEN <<>>
    ELSE <<<<"TableRow", n = Len(rows)>>>> \o ExpectedCells(1, Len(rows[n]))
         \o ExpectedRows(rows, n + 1)

Skeleton(blks) ==
    [i \in DOMAIN blks |-> <<blks[i].type, Has(blks[i], "last_table_elem")>>]

\* The TableText blocks that follow the k-th TableCell block of blks.
RECURSIVE TextsOfCell(_, _, _)
TextsOfCell(blks, k, inside) ==
    IF blks = <<>> THEN <<>>
    ELSE IF Head(blks).type = "TableCell"
         THEN IF inside THEN <<>> ELSE TextsOfCell(Tail(blks), k - 1, k = 1)
    ELSE IF inside /\ Head(blks).type = "TableText"
         THEN <<Head(blks)>> \o TextsOfCell(Tail(blks), k, inside)
    ELSE IF inside THEN <<>>
    ELSE TextsOfCell(Tail(blks), k, inside)

C2_TableShape ==
    ( /\ hist # EmptyDict
      /\ Len(hist.page.blocks) = 1
      /\ hist.page.blocks[1].attrib.blockType = "Table" )
    => LET rows  == TableOf(hist.page)
           cells == Concat(rows)
       IN  /\ err = ""
           /\ Skeleton(SelectBlocks(NewBlocks, {"Table", "TableRow", "TableCell"}))
                 = <<<<"Table", FALSE>>>> \o ExpectedRows(rows, 1)
           /\ \A k \in DOMAIN cells :
                 (Len(cells[k]) = 1 /\ IsBlank(cells[k][1]))
                 => /\ Len(TextsOfCell(NewBlocks, k, FALSE)) = 1
                    /\ TextsOfCell(NewBlocks, k, FALSE)[1].text = <<>>

\* A table of two rows of two cells, one of them a cell whose sole paragraph
\* is empty, has been flattened.
C2_Witness ==
    /\ hist # EmptyDict
    /\ err = ""
    /\ Len(hist.page.blocks) = 1
    /\ hist.page.blocks[1].attrib.blockType = "Table"
    /\ Len(TableOf(hist.page)) = 2
    /\ \A r \in 1..2 : Len(TableOf(hist.page)[r]) = 2
    /\ \E k \in 1..4 : /\ Len(Concat(TableOf(hist.page))[k]) = 1
                       /\ IsBlank(Concat(TableOf(hist.page))[k][1])
    /\ Len(SelectBlocks(NewBlocks, {"TableCell"})) = 4

\* C8: find_namespace either sets the version to one of the two supported
\* identifiers, FR10 only when the FineReader10 URI is declared and FR6 only
\* when the FineReader6 URI is, with the matching namespace, or fails with
\* RuntimeError when neither is declared; styles and pages are never processed
\* with the version unset and nothing is appended after the failure.
C8_VersionOrFatal ==
    /\ pc # "start" =>
          IF nsmap \cap {ABBYY_NS, OLD_NS} = {}
          THEN /\ pc = "failed" /\ err = "RuntimeError"
               /\ version = "" /\ ns = "" /\ fr_version = ""
               /\ blocks = <<>> /\ paragraphs = EmptyDict /\ page_no = 0
          ELSE /\ version \in {"FR10", "FR6"}
               /\ fr_version = version
               /\ version = "FR10" => (ABBYY_NS \in nsmap /\ ns = ABBYY_NS)
               /\ version = "FR6" => (OLD_NS \in nsmap /\ ns = OLD_NS)
    /\ (pc \in {"pages", "event", "done"} \/ blocks # <<>> \/ page_no > 0
        \/ paragraphs # EmptyDict) => version \in {"FR10", "FR6"}

\* A document that declares neither namespace has been refused.
C8_Witness ==
    /\ pc = "failed"
    /\ err = "RuntimeError"
    /\ nsmap = {OTHER_NS}
    /\ version = ""

\* C9: during the page pass at most one page of the tree has a subtree, and
\* once fast_iter has handled page k the tree holds nothing but the cleared
\* page k: every sibling before it is gone.
C9_OnePageInTree ==
    /\ Cardinality({i \in DOMAIN tree : tree[i].kind = "page" /\ tree[i].nodes > 0}) <= 1
    /\ (pc \in {"pages", "done"} /\ page_no > 0)
          => tree = <<[kind |-> "page", nodes |-> 0]>>

\* The second page is in the tree while the first, which had blocks, is
\* still there but cleared.
C9_Witness ==
    /\ pc = "event"
    /\ page_no = 1
    /\ hist.page.blocks # <<>>
    /\ Len(tree) = 2
    /\ tree[1] = [kind |-> "page", nodes |-> 0]
    /\ tree[2].nodes > 0

\* The <fontStyle> elements of the style section, by id.
FontStyleElems ==
    UNION { {StyleElems[i].children[j] : j \in DOMAIN StyleElems[i].children} :
               i \in DOMAIN StyleElems }

\* C11: after the style resolution step of parse_abbyy every paragraph style
\* whose mainFontStyleId names a <fontStyle> element of the document carries
\* a 'fontstyle' entry equal to that element's attributes, whether the
\* element came before or after the paragraph style.
C11_FontStyleResolved ==
    pc \in {"pages", "event", "done"}
    => \A id \in DOMAIN paragraphs :
          (Has(paragraphs[id], "mainFontStyleId")
             /\ \E f \in FontStyleElems : f.id = paragraphs[id].mainFontStyleId)
          => /\ Has(paragraphs[id], "fontstyle")
             /\ \E f \in FontStyleElems :
                   f.id = paragraphs[id].mainFontStyleId /\ paragraphs[id].fontstyle = f

\* C12: the first <page> of the document is skipped whatever it holds: none
\* of its blocks reaches the block list, and the page counter moves past it.
C12_FirstPageSkipped ==
    (hist # EmptyDict /\ hist.page_no = 0)
    => /\ \A i \in DOMAIN NewBlocks : NewBlocks[i].type = "Page"
       /\ err = "" => page_no = 1

\* C13: process_pages on a <page> without child blocks raises nothing, adds
\* nothing to the block list and moves the page counter on by exactly one,
\* whatever the block list holds (nothing yet, or a last element that is not
\* a Page marker).
C13_EmptyPageOnlyCounts ==
    (hist # EmptyDict /\ hist.page.blocks = <<>>)
    => /\ err = ""
       /\ Len(blocks) = hist.from
       /\ page_no = hist.page_no + 1

\* The blocks of the page last processed that are not Page markers.
ContentBlocks == SelectSeq(NewBlocks, LAMBDA b : b.type # "Page")

\* C14: with page support on, a page that contributes at least one content
\* block gets exactly one Page marker with the page's number, appended
\* behind all of the page's blocks (and so before any block of a later page).
C14_OnePageMarker ==
    (hist # EmptyDict /\ pages_support /\ ContentBlocks # <<>>)
    => /\ Len(SelectBlocks(NewBlocks, {"Page"})) = 1
       /\ blocks[Len(blocks)] = [type |-> "Page", text |-> hist.page_no]

\* The same of the pages that process_pages has finished without an exception.
OnePageMarkerWhenFinished == err = "" => C14_OnePageMarker

\* C15: when process_pages has finished a page whose last emitted block is a
\* Text block, that block carries the 'last' flag.
C15_LastTextFlagged ==
    ( /\ hist # EmptyDict
      /\ err = ""
      /\ ContentBlocks # <<>>
      /\ ContentBlocks[Len(ContentBlocks)].type = "Text" )
    => Has(ContentBlocks[Len(ContentBlocks)], "last")

\* The Text blocks that the page last processed has added.
NewTexts == SelectBlocks(NewBlocks, {"Text"})

\* C16: of a page on which at least one Text block is emitted, exactly one
\* Text block carries the 'first' flag, and it is the first Text block
\* emitted for the page, also when a Table or Picture block precedes it.
C16_ExactlyOneFirst ==
    (hist # EmptyDict /\ NewTexts # <<>>)
    => /\ Has(NewTexts[1], "first")
       /\ \A i \in DOMAIN NewBlocks :
             Has(NewBlocks[i], "first") => NewBlocks[i] = NewTexts[1]
       /\ \A i \in 2..Len(NewTexts) : ~Has(NewTexts[i], "first")

\* C17: after any run of parsed pages metadata['pics_by_page'] indexes every
\* Picture block parsed so far, page by page and in order of appearance:
\* taken together its entries are the Picture blocks of the block list, and
\* adding a picture loses none of those indexed before.
C17_PicsByPageComplete ==
    pics_by_page.items = SelectBlocks(blocks, {"Picture"})

\* C22: of every table cell for which at least one TableText block is
\* emitted, exactly one TableText carries last_table_elem, and it is the last
\* one emitted for the cell, also when empty paragraphs of the cell were
\* skipped.
C22_LastTableTextFlagged ==
    ( /\ hist # EmptyDict
      /\ Len(hist.page.blocks) = 1
      /\ hist.page.blocks[1].attrib.blockType = "Table" )
    => \A k \in DOMAIN Concat(TableOf(hist.page)) :
          LET texts == TextsOfCell(NewBlocks, k, FALSE)
          IN  texts # <<>>
              => \A i \in DOMAIN texts :
                    Has(texts[i], "last_table_elem") <=> i = Len(texts)


\* C25: once the style pass is over, the paragraphs mapping is never modified:
\* no step of the page pass adds or removes a key or changes a record.
C25_ParagraphsFrozen ==
    [][(pc \in {"metadata", "pages", "event"}) => (paragraphs' = paragraphs)]_vars


\* The blocks that carry a page_no (all but the Page markers).
Paged == {i \in DOMAIN blocks : Has(blocks[i], "page_no")}

TypeBefore(i) == IF i > 1 THEN blocks[i - 1].type ELSE "none"

\* C26: the block sequence is in reading order: the page_no values of the
\* blocks that carry one never decrease along the sequence; each Page marker
\* follows a block of the page it numbers; and in a table a TableRow comes
\* after the Table or after the previous row's cells and texts, a TableCell
\* after its TableRow or the previous cell, a TableText after its TableCell
\* or the cell's previous text, all on the table's page.
C26_ReadingOrder ==
    /\ \A i, j \in Paged : i < j => blocks[i].page_no <= blocks[j].page_no
    /\ \A i \in DOMAIN blocks :
          blocks[i].type = "Page"
          => /\ i - 1 \in Paged
             /\ blocks[i - 1].page_no = blocks[i].text
    /\ \A i \in DOMAIN blocks :
          /\ blocks[i].type = "TableRow"
             => TypeBefore(i) \in {"Table", "TableRow", "TableCell", "TableText"}
          /\ blocks[i].type = "TableCell"
             => TypeBefore(i) \in {"TableRow", "TableCell", "TableText"}
          /\ blocks[i].type = "TableText"
             => TypeBefore(i) \in {"TableCell", "TableText"}
          /\ blocks[i].type \in {"TableRow", "TableCell", "TableText"}
             => blocks[i - 1].page_no = blocks[i].page_no

\* Two pages are in the blocks, each closed by its marker, the second with a
\* table.
C26_Witness ==
    /\ pc = "done" /\ err = ""
    /\ \E i, j, t \in DOMAIN blocks :
          /\ i < j /\ j < t
          /\ blocks[i].type = "Page" /\ blocks[Len(blocks)].type = "Page"
          /\ blocks[i].text < blocks[Len(blocks)].text
          /\ blocks[j].type = "Table" /\ blocks[t].type = "TableText"

-----------------------------------------------------------------------------
(* make_image on the Picture blocks of a parsed book, in the order in      *)
(* which craft_html meets them.                                            *)

PicBoxes == {<<0, 0, 100, 100>>, <<10, 10, 50, 50>>, <<10, 10, 100, 100>>, <<0, 0, 50, 50>>}

\* A Picture <block> and the number of the page it is on.
PicElems ==
    { [page_no |-> n,
       block |-> [attrib |-> Put(BlockAttr("Picture", x[1], x[2], x[3], x[4]),
                                 "blockName", name),
                  pars |-> <<>>, rows |-> <<>>]] :
        n \in 0..2, x \in PicBoxes, name \in {"p", "q"} }

PicDocs == { d \in NonEmptySeqsUpTo(PicElems, MaxPics) :
                \A i \in 1..(Len(d) - 1) : d[i].page_no <= d[i + 1].page_no }

RECURSIVE ParsePics(_, _)
ParsePics(st, d) ==
    IF d = <<>> THEN st
    ELSE ParsePics(parse_block(st, Head(d).block, Head(d).page_no, "FR10", 1000, 2000),
                   Tail(d))

ImageInit ==
    /\ pc = "images"
    /\ \E d \in PicDocs :
          LET st == ParsePics([blocks |-> <<>>, paragraphs |-> EmptyDict,
                               newpage |-> FALSE,
                               pics |-> [kind |-> "dict", items |-> <<>>],
                               err |-> ""], d)
          IN  /\ blocks = st.blocks
              /\ pics_by_page = st.pics
    /\ picnum = 1
    /\ images = <<>>
    /\ firsts = EmptyDict /\ lasts = EmptyDict
    /\ headers_present = "False" /\ footers_present = "unset"
    /\ pagenums_found = FALSE /\ rpagenums_found = FALSE
    /\ cfg = EmptyDict
    /\ ParserIdle /\ CallIdle /\ RenderIdle

\* craft_html hands the next Picture block to make_image.
MakeImage ==
    /\ pc = "images"
    /\ Len(images) < Len(blocks)
    /\ \E fileExists \in BOOLEAN, cropOk \in BOOLEAN :
          LET r == make_image(blocks[Len(images) + 1], pics_by_page, fileExists, cropOk)
          IN  /\ images' = Append(images, r)
              /\ picnum' = IF r = "rendered" THEN picnum + 1 ELSE picnum
    /\ UNCHANGED <<pc, parserVars, sharedVars, firsts, lasts, headers_present,
                   footers_present, pagenums_found, rpagenums_found, cfg, renderVars,
                   callVars>>

ImagesDone ==
    /\ pc = "images"
    /\ Len(images) = Len(blocks)
    /\ pc' = "imagesdone"
    /\ UNCHANGED <<parserVars, sharedVars, ebookVars, renderVars, callVars>>

ImageNext == MakeImage \/ ImagesDone

SpecImage == ImageInit /\ [][ImageNext]_vars

SamePage(i, j) == blocks[i].page_no = blocks[j].page_no /\ blocks[i].page_no > 0

\* The box of block i lies inside the box of block j and is not the same box.
Inside(i, j) ==
    LET a == image_dim(blocks[i])
        b == image_dim(blocks[j])
    IN  a[1] >= b[1] /\ a[2] >= b[2] /\ a[3] <= b[3] /\ a[4] <= b[4] /\ a # b

\* C3: a Picture whose box lies entirely inside the box of another Picture of
\* the same page is suppressed by make_image, and a Picture that no other
\* Picture of its page encloses is not.
C3_NestedPictureSuppressed ==
    \A i \in DOMAIN images :
        /\ (\E j \in DOMAIN blocks : j # i /\ SamePage(i, j) /\ Inside(i, j))
              => images[i] # "rendered"
        /\ (\A j \in DOMAIN blocks : j # i =>
                ~(Inside(i, j) \/ image_dim(blocks[i]) = image_dim(blocks[j])))
              => images[i] # "suppressed"

\* C4: two distinct Picture blocks of one page with the same box do not
\* suppress each other, whatever their other attributes: when no Picture of
\* the page encloses them, neither is dropped by the overlap check.
C4_IdenticalBoxesKept ==
    \A i \in DOMAIN images : \A j \in DOMAIN blocks :
        ( /\ i # j
          /\ SamePage(i, j)
          /\ image_dim(blocks[i]) = image_dim(blocks[j])
          /\ \A k \in DOMAIN blocks : ~(SamePage(i, k) /\ Inside(i, k)) )
        => images[i] # "suppressed"

-----------------------------------------------------------------------------
(* craft_html's two calls of identify_headers_footers_pagenos, 'first'     *)
(* then 'last', on a book of Text blocks.                                  *)

FirstLines == {<<"1">>, <<"2">>, <<"1", "0">>, <<"A", "b">>, <<"i", "c">>}
LastLines  == {<<"A", "b">>, <<"A", "c">>, <<"7">>}

\* What a page gives the detector: a first and a last Text block, or nothing.
LinePages == {[first |-> f, last |-> l] : f \in FirstLines, l \in LastLines}
                \cup {[first |-> <<>>, last |-> <<>>]}

LineBlock(pno, line, placement) ==
    Put([type |-> "Text", page_no |-> pno, text |-> line,
         role |-> "text", style |-> EmptyDict], placement, TRUE)

RECURSIVE LineBlocks(_, _)
LineBlocks(doc, pno) ==
    IF doc = <<>> THEN <<>>
    ELSE (IF Head(doc).first = <<>> THEN <<>>
          ELSE <<LineBlock(pno, Head(doc).first, "first"),
                 LineBlock(pno, Head(doc).last, "last")>>)
         \o LineBlocks(Tail(doc), pno + 1)

Thresholds == {[HEADERS_PRESENT_THRESHOLD |-> 50, FUZZY_HEADER_THRESHOLD |-> 50],
               [HEADERS_PRESENT_THRESHOLD |-> 75, FUZZY_HEADER_THRESHOLD |-> 80]}

DetectInit ==
    /\ pc = "identify_first"
    /\ \E doc \in NonEmptySeqsUpTo(LinePages, MaxLinePages) : blocks = LineBlocks(doc, 1)
    /\ pics_by_page = [kind |-> "dict", items |-> <<>>]
    /\ firsts = EmptyDict /\ lasts = EmptyDict
    /\ headers_present = "False" /\ footers_present = "unset"
    /\ pagenums_found = FALSE /\ rpagenums_found = FALSE
    /\ cfg \in Thresholds
    /\ picnum = 1 /\ images = <<>>
    /\ ParserIdle /\ CallIdle /\ RenderIdle

\* The lines of the book made of Roman letters only: those that roman2int,
\* which is not part of this program, may or may not decode.
RomanLines ==
    {blocks[i].text : i \in {j \in DOMAIN blocks :
        blocks[j].type = "Text" /\ AnchoredSearch(RomanChars, blocks[j].text, 0)}}

\* identify_headers_footers_pagenos(placement), followed by pc = next unless
\* an exception ends craft_html.
Identify(placement, next) ==
    \E undecodable \in SUBSET RomanLines :
    LET before  == IF placement = "first" THEN firsts ELSE lasts
        acc     == ScanLines(blocks, placement,
                             [mylines |-> before, digits |-> <<>>, romans |-> <<>>,
                              num |-> <<>>, err |-> ""],
                             undecodable)
        mylines == IF acc.err = "" THEN WithRatios(acc.mylines) ELSE acc.mylines
        found   == IF acc.err = ""
                   THEN PatternFound(mylines, cfg.HEADERS_PRESENT_THRESHOLD,
                                     IF placement = "first" THEN headers_present
                                     ELSE footers_present)
                   ELSE IF placement = "first" THEN headers_present
                   ELSE footers_present
    IN  /\ IF placement = "first"
           THEN /\ firsts' = mylines
                /\ headers_present' = found
                /\ UNCHANGED <<lasts, footers_present>>
           ELSE /\ lasts' = mylines
                /\ footers_present' = found
                /\ UNCHANGED <<firsts, headers_present>>
        /\ pagenums_found' = IF acc.err = "" /\ acc.digits # <<>>
                                 /\ is_increasing(acc.digits)
                             THEN TRUE ELSE pagenums_found
        /\ rpagenums_found' = IF acc.err = "" /\ acc.romans # <<>>
                                  /\ is_increasing(acc.romans)
                              THEN TRUE ELSE rpagenums_found
        /\ err' = acc.err
        /\ pc' = IF acc.err = "" THEN next ELSE "failed"
        /\ arg' = [placement |-> placement, undecodable |-> undecodable]
        /\ result' = [consecutive |-> LoggedAverages(mylines).consecutive,
                      alternating |-> LoggedAverages(mylines).alternating,
                      candidate_digits |-> acc.digits,
                      candidate_romans |-> acc.romans]
        /\ UNCHANGED <<nsmap, version, ns, fr_version, metadata, paragraphs,
                       fontStyles, page_no, newpage, pages_support, tree, elem,
                       hist, sharedVars, cfg, picnum, images, renderVars>>

IdentifyFirst ==
    /\ pc = "identify_first"
    /\ Identify("first", "identify_last")

IdentifyLast ==
    /\ pc = "identify_last"
    /\ Identify("last", "identified")

DetectNext == IdentifyFirst \/ IdentifyLast

SpecDetect == DetectInit /\ [][DetectNext]_vars

\* The blocks that carry the placement flag, in page order.
Placed(placement) == SelectSeq(blocks, LAMBDA b : Has(b, placement))

\* A bare digit string, and the number it writes in decimal.
IsDigitString(t) == t # <<>> /\ \A i \in DOMAIN t : t[i] \in DigitChars

RECURSIVE NumberOf(_)
NumberOf(t) ==
    IF t = <<>> THEN 0
    ELSE 10 * NumberOf(SubSeq(t, 1, Len(t) - 1))
         + (CHOOSE n \in 0..9 : DigitValue(t[Len(t)]) = n)

AllDigitFirsts ==
    /\ Placed("first") # <<>>
    /\ \A i \in DOMAIN Placed("first") : IsDigitString(Placed("first")[i].text)
    /\ \A i \in 1..(Len(Placed("first")) - 1) :
          NumberOf(Placed("first")[i].text) < NumberOf(Placed("first")[i + 1].text)

\* C5: when the first-line Text blocks of the pages are bare digit strings
\* whose values strictly increase in page order, then once
\* identify_headers_footers_pagenos('first') has run the digit numbering is
\* confirmed (pagenums_found) and is_header_footer(block, 'first') is true of
\* the first-line block of every one of those pages.
C5_DigitSchemeConfirmed ==
    (pc \in {"identify_last", "identified"} /\ AllDigitFirsts)
    => /\ pagenums_found
       /\ \A i \in DOMAIN Placed("first") : is_header_footer(Placed("first")[i], "first")

C5_Witness ==
    /\ pc = "identify_last"
    /\ AllDigitFirsts
    /\ Len(Placed("first")) = MaxLinePages
    /\ pagenums_found
    /\ \A i \in DOMAIN Placed("first") : is_header_footer(Placed("first")[i], "first")

\* At least three consecutive pages, and every page of the book, end in the
\* same last-line text.
SameLastLines ==
    /\ Len(Placed("last")) >= 3
    /\ \A i \in DOMAIN Placed("last") :
          /\ Placed("last")[i].text = Placed("last")[1].text
          /\ Placed("last")[i].page_no = i

\* C6: when at least three consecutive pages all have the same last-line
\* text, identify_headers_footers_pagenos('last') logs a consecutive average
\* of 100, classifies the last lines as 'consecutive', and
\* is_header_footer(block, 'last') is true of the last-line block of every
\* one of those pages, the final page included.
C6_RepeatedFooterSuppressed ==
    (pc = "identified" /\ SameLastLines)
    => /\ result.consecutive[1] = 100 * result.consecutive[2]
       /\ footers_present = "consecutive"
       /\ \A i \in DOMAIN Placed("last") : is_header_footer(Placed("last")[i], "last")

\* The lines, of the placement last scanned, that are bare digit strings.
DigitsPlaced ==
    SelectSeq(Placed(arg.placement), LAMBDA b : IsDigitString(b.text))

\* The lines, of the placement last scanned, of Roman letters that decode.
DecodablePlaced ==
    SelectSeq(Placed(arg.placement),
              LAMBDA b : b.text \in RomanLines /\ b.text \notin arg.undecodable)

DigitLines(placement) == SelectSeq(Placed(placement), LAMBDA b : IsDigitString(b.text))

DigitSchemeOf(placement) ==
    /\ DigitLines(placement) # <<>>
    /\ \A i \in 1..(Len(DigitLines(placement)) - 1) :
          NumberOf(DigitLines(placement)[i].text)
             < NumberOf(DigitLines(placement)[i + 1].text)

\* C19: after identify_headers_footers_pagenos has run for 'first' and for
\* 'last', is_header_footer(block, placement) is true on page-number grounds
\* only if the number candidates of that same placement were non-empty and
\* strictly increasing: a numbering confirmed for one placement suppresses no
\* line of the other.  (Stated of the digit lines.)
C19_SchemePerPlacement ==
    pc = "identified"
    => \A placement \in {"first", "last"} :
          \A i \in DOMAIN Placed(placement) :
             ( /\ IsDigitString(Placed(placement)[i].text)
               /\ is_page_number(Placed(placement)[i], placement) )
             => DigitSchemeOf(placement)

-----------------------------------------------------------------------------
(* parse_metadata on metadata documents of up to MaxTerms terms, with a    *)
(* metadata dict that is empty or already holds a list.                    *)

MetaInit ==
    /\ pc = "metadata"
    /\ metadata \in {EmptyDict,
                     Put(EmptyDict, "language", PyList(<<"wo">>)),
                     Put(EmptyDict, "language", PyList(<<"deu">>)),
                     Put(EmptyDict, "subject", PyList(<<"z">>))}
    /\ nsmap = {ABBYY_NS} /\ version = "FR10" /\ ns = ABBYY_NS /\ fr_version = "FR10"
    /\ paragraphs = EmptyDict /\ fontStyles = EmptyDict
    /\ page_no = 0 /\ newpage = FALSE /\ pages_support = FALSE
    /\ tree = <<>> /\ elem = EmptyDict /\ hist = EmptyDict /\ err = ""
    /\ SharedIdle /\ EbookIdle /\ CallIdle /\ RenderIdle

StepMetaDoc == ParseMetadata(MetaDocs)

MetaNext == StepMetaDoc

SpecMeta == MetaInit /\ [][MetaNext]_vars

\* The texts of the terms of a tag, in document order.
RECURSIVE TextsOf(_, _)
TextsOf(doc, tag) ==
    IF doc = <<>> THEN <<>>
    ELSE (IF Head(doc).tag = tag THEN <<Head(doc).text>> ELSE <<>>)
         \o TextsOf(Tail(doc), tag)

Alpha2Of(entry) ==
    CASE entry = "wo" -> "wo"
      [] entry \in {"deu", "ger"} -> "de"
      [] entry = "Cree" -> "cr"
      [] OTHER -> "en"

\* The language entries after the call: those the dict held, then the
\* document's.
LanguageEntries ==
    (IF Has(arg.metadata, "language") THEN arg.metadata["language"].items ELSE <<>>)
       \o TextsOf(arg.doc, "language")

\* C21: after parse_metadata the first language entry is an ISO 639-1
\* two-letter code: an alpha-2 entry is kept, an alpha-3 entry or an English
\* name is converted, an unrecognised entry becomes 'en'.
C21_LanguageIsAlpha2 ==
    (pc \in {"pages", "failed"} /\ arg # <<>> /\ LanguageEntries # <<>>)
    => /\ metadata["language"].kind = "list"
       /\ metadata["language"].items[1] = Alpha2Of(LanguageEntries[1])

-----------------------------------------------------------------------------
(* The two calls of identify_headers_footers_pagenos on books in which     *)
(* any page may be without text.                                           *)

GapPages == {[first |-> <<>>, last |-> <<>>],
             [first |-> <<"A", "b">>, last |-> <<"A", "b">>],
             [first |-> <<"A", "c">>, last |-> <<"A", "b">>]}

GapInit ==
    /\ pc = "identify_first"
    /\ \E doc \in [1..MaxGapPages -> GapPages] : blocks = LineBlocks(doc, 1)
    /\ pics_by_page = [kind |-> "dict", items |-> <<>>]
    /\ firsts = EmptyDict /\ lasts = EmptyDict
    /\ headers_present = "False" /\ footers_present = "unset"
    /\ pagenums_found = FALSE /\ rpagenums_found = FALSE
    /\ cfg \in Thresholds
    /\ picnum = 1 /\ images = <<>>
    /\ ParserIdle /\ CallIdle /\ RenderIdle

GapNext == IdentifyFirst \/ IdentifyLast

SpecGap == GapInit /\ [][GapNext]_vars

\* The pages that have a line of the placement last scanned, and the number
\* of pairs of them d pages apart.
LinePagesOf == {Placed(arg.placement)[i].page_no : i \in DOMAIN Placed(arg.placement)}

PairsApart(d) == Cardinality({k \in LinePagesOf : (k + d) \in LinePagesOf})

\* C24: the consecutive average is the sum of the distance-1 ratios divided
\* by the number of pairs of pages (k, k+1) that both have a line, and the
\* alternating average the sum of the distance-2 ratios divided by the number
\* of pairs (k, k+2), also when the pages with a line are not contiguous.
\* (Of the averages that are computed, and of sums that are not zero.)
C24_AveragesOverPairs ==
    (pc \in {"identify_last", "identified"} /\ Cardinality(LinePagesOf) > 2)
    => /\ result.consecutive[1] > 0 => result.consecutive[2] = PairsApart(1)
       /\ result.alternating[1] > 0 => result.alternating[2] = PairsApart(2)

\* The same of books whose pages with a line are contiguous.
AveragesOverPairsWhenContiguous ==
    (pc \in {"identify_last", "identified"}
        /\ \A k \in LinePagesOf : (k - 1) \in LinePagesOf
                                   \/ \A j \in LinePagesOf : j >= k)
    => C24_AveragesOverPairs

-----------------------------------------------------------------------------
(* add_last_text called on its own, on lists of elements with and without  *)
(* a page number.                                                          *)

\* Elements of a block list: blocks of type 'text', 'Text' or 'Picture' on a
\* page, and Page markers, which have no page_no.
LastElems ==
    {[type |-> t, page_no |-> p] : t \in {"text", "Picture"}, p \in 1..2}
       \cup {[type |-> "Text", page_no |-> 1], [type |-> "Page", text |-> 1]}

LastInit ==
    /\ pc = "call_last"
    /\ arg \in [blocks : SeqsUpTo(LastElems, MaxElems), page : 1..2]
    /\ result = "none"
    /\ ParserIdle /\ SharedIdle /\ EbookIdle /\ RenderIdle

CallAddLastText ==
    /\ pc = "call_last"
    /\ pc' = "returned_last"
    /\ result' = add_last_text(arg.blocks, arg.page)
    /\ UNCHANGED <<arg, renderVars, parserVars, sharedVars, ebookVars>>

LastNext == CallAddLastText

SpecLast == LastInit /\ [][LastNext]_vars

\* The elements from which a backward scan can still go on: those that carry
\* a page number.
Numbered(e) == Has(e, "page_no")

\* The first element, from the end, that lacks page_no or carries this
\* page's number; 0 when there is none.
FirstStop ==
    CHOOSE k \in 0..Len(arg.blocks) :
       /\ k > 0 => (~Numbered(arg.blocks[k]) \/ arg.blocks[k].page_no = arg.page)
       /\ \A m \in (k + 1)..Len(arg.blocks) :
             Numbered(arg.blocks[m]) /\ arg.blocks[m].page_no # arg.page

LastTargets ==
    {n \in DOMAIN arg.blocks :
        /\ Numbered(arg.blocks[n])
        /\ arg.blocks[n].page_no = arg.page
        /\ arg.blocks[n].type = "text"
        /\ \A m \in (n + 1)..Len(arg.blocks) :
              /\ Numbered(arg.blocks[m])
              /\ ~(arg.blocks[m].page_no = arg.page /\ arg.blocks[m].type = "text")}

-----------------------------------------------------------------------------
(* load_scandata_pages and extract_images: the scandata leaves and the     *)
(* choice of the cover leaf.  Ebook.pages is an OrderedDict, modelled as   *)
(* the sequence of its items in insertion order.                           *)

\* self.pages[int(num)] = pagetype on an OrderedDict: a new key goes to the
\* end, a key already present keeps its place and takes the new value.
OrderedPut(od, k, v) ==
    IF \E i \in DOMAIN od : od[i].leaf = k
    THEN [i \in DOMAIN od |-> IF od[i].leaf = k THEN [leaf |-> k, type |-> v]
                              ELSE od[i]]
    ELSE Append(od, [leaf |-> k, type |-> v])

RECURSIVE parse_scandata(_, _)
parse_scandata(od, pagelist) ==
    IF pagelist = <<>> THEN od
    ELSE parse_scandata(OrderedPut(od, Head(pagelist).leafNum, Head(pagelist).pageType),
                        Tail(pagelist))

\* The loop of extract_images over the leaves: the first leaf of one of the
\* three types ends it.  <<>> when cover_leaf is never bound.
RECURSIVE FindCoverLeaf(_)
FindCoverLeaf(od) ==
    IF od = <<>> THEN <<>>
    ELSE IF Head(od).type = "cover" THEN <<Head(od).leaf>>
    ELSE IF Head(od).type = "title" THEN <<Head(od).leaf>>
    ELSE IF Head(od).type = "normal" THEN <<Head(od).leaf>>
    ELSE FindCoverLeaf(Tail(od))

\* The <page> entries of a scandata file.
ScanPages == [leafNum : 1..MaxLeafs, pageType : {"cover", "title", "normal", "Cover"}]

CoverInit ==
    /\ pc = "load_scandata"
    /\ ParserIdle /\ SharedIdle /\ EbookIdle /\ RenderIdle /\ CallIdle

LoadScandataPages ==
    /\ pc = "load_scandata"
    /\ \E pagelist \in SeqsUpTo(ScanPages, MaxLeafs) :
          /\ pages' = parse_scandata(pages, pagelist)
          /\ arg' = pagelist
    /\ pc' = "extract_images"
    /\ UNCHANGED <<parserVars, sharedVars, ebookVars, chapters, endnotes, noteref,
                   last_row, last_cell, blocks_index, pagetype, prev_pagetype,
                   result>>

\* extract_images: the cover leaf, then the page images are unpacked and the
\* cover is cropped; a failed crop is logged and the run goes on.
ExtractImages ==
    /\ pc = "extract_images"
    /\ LET cover_leaf == FindCoverLeaf(pages)
       IN  /\ result' = [cover_leaf |-> cover_leaf]
           /\ IF cover_leaf = <<>>
              THEN err' = "RuntimeError" /\ pc' = "failed"
              ELSE \E zipOk \in BOOLEAN :
                      IF zipOk THEN err' = "" /\ pc' = "extracted"
                      ELSE err' = "BadZipFile" /\ pc' = "failed"
    /\ UNCHANGED <<nsmap, version, ns, fr_version, metadata, paragraphs, fontStyles,
                   page_no, newpage, pages_support, tree, elem, hist, sharedVars,
                   ebookVars, renderVars, arg>>

CoverNext == LoadScandataPages \/ ExtractImages

SpecCover == CoverInit /\ [][CoverNext]_vars

\* The first leaf of a type, <<>> when there is none.
FirstTagged(t) ==
    LET tagged == {i \in DOMAIN pages : pages[i].type = t}
    IN  IF tagged = {} THEN <<>>
        ELSE <<pages[CHOOSE i \in tagged : \A j \in tagged : i <= j].leaf>>

\* C28: extract_images chooses the cover leaf by priority: the first leaf
\* tagged cover if there is one, otherwise the first tagged title, otherwise
\* the first tagged normal; with none of the three it raises RuntimeError.
C28_CoverByPriority ==
    pc \in {"extracted", "failed"}
    => LET byPriority == IF FirstTagged("cover") # <<>> THEN FirstTagged("cover")
                         ELSE IF FirstTagged("title") # <<>> THEN FirstTagged("title")
                         ELSE FirstTagged("normal")
       IN  /\ result.cover_leaf = byPriority
           /\ byPriority = <<>> <=> err = "RuntimeError"

\* What extract_images does: it takes the first leaf that has any of the
\* three types.
CoverIsFirstOfAny ==
    pc \in {"extracted", "failed"}
    => LET tagged == {i \in DOMAIN pages : pages[i].type \in {"cover", "title", "normal"}}
       IN  /\ tagged = {} <=> err = "RuntimeError"
           /\ tagged # {}
              => result.cover_leaf =
                   <<pages[CHOOSE i \in tagged : \A j \in tagged : i <= j].leaf>>

-----------------------------------------------------------------------------
(* sanitize_xml and dirtify_xml called on their own, one after the other.  *)

XmlChars == {"&", "<", ">", "\"", "'", "l", "t", ";"}

XmlInit ==
    /\ pc = "call_xml"
    /\ arg \in SeqsUpTo(XmlChars, MaxXmlLen)
    /\ result = "none"
    /\ ParserIdle /\ SharedIdle /\ EbookIdle /\ RenderIdle

CallSanitizeDirtify ==
    /\ pc = "call_xml"
    /\ pc' = "returned_xml"
    /\ result' = [sanitized |-> sanitize_xml(arg),
                  dirtified |-> dirtify_xml(sanitize_xml(arg))]
    /\ UNCHANGED <<arg, renderVars, parserVars, sharedVars, ebookVars>>

XmlNext == CallSanitizeDirtify

SpecXml == XmlInit /\ [][XmlNext]_vars

Entities == {EntAmp, EntLt, EntGt, EntQuot, EntApos}

StartsEntity(t, i) ==
    \E e \in Entities : i + Len(e) - 1 <= Len(t) /\ SubSeq(t, i, i + Len(e) - 1) = e

\* C30: dirtify_xml undoes sanitize_xml on every text of ordinary characters
\* and & < > " ', and the sanitized text holds none of < > " ' and no & that
\* is not the start of one of the five entities.
C30_DirtifyInvertsSanitize ==
    pc = "returned_xml"
    => /\ result.dirtified = arg
       /\ \A i \in DOMAIN result.sanitized :
             /\ result.sanitized[i] \notin {"<", ">", "\"", "'"}
             /\ result.sanitized[i] = "&" => StartsEntity(result.sanitized, i)

\* The half of it about sanitize_xml alone.
SanitizedIsClean ==
    pc = "returned_xml"
    => \A i \in DOMAIN result.sanitized :
          /\ result.sanitized[i] \notin {"<", ">", "\"", "'"}
          /\ result.sanitized[i] = "&" => StartsEntity(result.sanitized, i)

\* The round trip on texts without a quotation mark and without the text of
\* an entity.
RoundTripWithoutQuote ==
    (pc = "returned_xml"
        /\ \A i \in DOMAIN arg : arg[i] # "\"" /\ ~StartsEntity(arg, i))
    => result.dirtified = arg

-----------------------------------------------------------------------------
(* craft_html on the blocks of a parsed book: the two detector calls, the  *)
(* first chapter with its title page, then the loop over the blocks.       *)

\* The paragraph styles of the books, as the style pass leaves them.
RenderParagraphs ==
    [sText |-> [id |-> "sText", role |-> "text"],
     sHead |-> [id |-> "sHead", role |-> "heading", roleLevel |-> "1"],
     sFoot |-> [id |-> "sFoot", role |-> "footnote"]]

OneCell == << Par("sText", <<"a">>) >>

\* The blocks of their pages: a paragraph, a footnote, a level-1 heading, a
\* table of one cell, a table of two rows, a table whose cell ends with an
\* empty paragraph, a picture.
RenderBlocks ==
    { TextBlock(<<Par("sText", <<"a">>)>>),
      TextBlock(<<Par("sFoot", <<"n">>)>>),
      TextBlock(<<Par("sHead", <<"b">>)>>),
      TableBlock(<< <<OneCell>> >>),
      TableBlock(<< <<OneCell, OneCell>>, <<OneCell>> >>),
      TableBlock(<< << <<Par("sText", <<"a">>), Par("sText", <<>>)>> >> >>),
      OtherBlock("Picture", 0, 0, 100, 100) }

RenderPages == {Page(bs) : bs \in SeqsUpTo(RenderBlocks, MaxRenderBlocks)}

\* The page pass of parse_abbyy over a whole document.
RECURSIVE FlattenPages(_, _, _, _)
FlattenPages(st, doc, pno, support) ==
    IF doc = <<>> \/ st.err # "" THEN st
    ELSE FlattenPages(process_pages(st, Head(doc), pno, "FR10", support),
                      Tail(doc), pno + 1, support)

\* What load_scandata_pages has read.
RenderScandata == { <<>>, <<[leaf |-> 1, type |-> "contents"]>>,
                    <<[leaf |-> 0, type |-> "Title"]>> }

\* The state in which craft_epub calls craft_html.
RenderInit ==
    /\ pc = "craft_html"
    /\ \E doc \in NonEmptySeqsUpTo(RenderPages, MaxRenderPages), support \in BOOLEAN :
          LET st == FlattenPages([blocks |-> <<>>, paragraphs |-> RenderParagraphs,
                                  newpage |-> FALSE,
                                  pics |-> [kind |-> "dict", items |-> <<>>],
                                  err |-> ""], doc, 0, support)
          IN  /\ st.err = ""
              /\ blocks = st.blocks
              /\ pics_by_page = st.pics
              /\ paragraphs = st.paragraphs
              /\ newpage = st.newpage
              /\ page_no = Len(doc)
              /\ pages_support = support
    /\ nsmap = {ABBYY_NS} /\ version = "FR10" /\ ns = ABBYY_NS /\ fr_version = "FR10"
    /\ metadata \in {[language |-> PyStr("eng")],
                     [language |-> PyStr("eng"), title |-> PyList(<< <<"t">> >>)]}
    /\ fontStyles = EmptyDict
    /\ tree = <<>> /\ elem = EmptyDict /\ hist = EmptyDict /\ err = ""
    /\ firsts = EmptyDict /\ lasts = EmptyDict
    /\ headers_present = "False" /\ footers_present = "unset"
    /\ pagenums_found = FALSE /\ rpagenums_found = FALSE
    /\ cfg \in Thresholds
    /\ picnum = 0 /\ images = <<>>
    /\ pages \in RenderScandata
    /\ chapters = <<>> /\ endnotes = <<>> /\ noteref = 0
    /\ last_row = FALSE /\ last_cell = FALSE
    /\ blocks_index = -1 /\ pagetype = "" /\ prev_pagetype = ""
    /\ CallIdle

\* craft_html up to the detector calls.
CraftStart ==
    /\ pc = "craft_html"
    /\ pc' = "identify_first"
    /\ picnum' = 1
    /\ blocks_index' = -1
    /\ last_row' = FALSE
    /\ pagetype' = "" /\ prev_pagetype' = ""
    /\ UNCHANGED <<parserVars, sharedVars, firsts, lasts, headers_present,
                   footers_present, pagenums_found, rpagenums_found, cfg, images,
                   pages, chapters, endnotes, noteref, last_cell, callVars>>

\* The entries of the metadata that the title page lists, one piece each.
TitlePageItems(key) ==
    IF Has(metadata, key)
    THEN [i \in DOMAIN metadata[key].items |->
             [tag |-> key, text |-> metadata[key].items[i]]]
    ELSE <<>>

\* From the detector calls to the loop: the first chapter and its title page.
CraftStub ==
    /\ pc = "identified"
    /\ pc' = "render"
    /\ last_row' = FALSE /\ last_cell' = FALSE
    /\ LET heading == IF Has(metadata, "title") THEN metadata.title.items[1]
                      ELSE <<"Opening Section">>
       IN  chapters' = AddContent(make_chapter(chapters, heading),
                          <<[tag |-> "h1", text |-> heading]>>
                          \o TitlePageItems("title-alt-script")
                          \o TitlePageItems("creator")
                          \o TitlePageItems("creator-alt-script")
                          \o <<Tag("<div class=\"offset\">")>>)
    /\ endnotes' = <<Tag("<ul>")>>
    /\ noteref' = 1
    /\ UNCHANGED <<parserVars, sharedVars, ebookVars, pages, blocks_index, pagetype,
                   prev_pagetype, callVars>>

\* Whether the picture's file is there, and whether cropping it succeeds:
\* asked of the file system for Picture blocks only.
FileOutcomes(block) == IF block.type = "Picture" THEN BOOLEAN ELSE {TRUE}

\* One pass of the loop.
CraftBlock ==
    /\ pc = "render"
    /\ blocks_index + 1 < Len(blocks)
    /\ \E fileExists \in FileOutcomes(blocks[blocks_index + 2]),
          cropOk \in FileOutcomes(blocks[blocks_index + 2]) :
          LET st == craft_block([chapters |-> chapters, endnotes |-> endnotes,
                                 noteref |-> noteref, last_row |-> last_row,
                                 last_cell |-> last_cell, pagetype |-> pagetype,
                                 prev_pagetype |-> prev_pagetype, picnum |-> picnum,
                                 images |-> images, err |-> ""],
                                blocks[blocks_index + 2], fileExists, cropOk)
          IN  /\ chapters' = st.chapters
              /\ endnotes' = st.endnotes
              /\ noteref' = st.noteref
              /\ last_row' = st.last_row
              /\ last_cell' = st.last_cell
              /\ pagetype' = st.pagetype
              /\ prev_pagetype' = st.prev_pagetype
              /\ picnum' = st.picnum
              /\ images' = st.images
              /\ err' = st.err
              /\ pc' = IF st.err = "" THEN "render" ELSE "failed"
    /\ blocks_index' = blocks_index + 1
    /\ UNCHANGED <<nsmap, version, ns, fr_version, metadata, paragraphs, fontStyles,
                   page_no, newpage, pages_support, tree, elem, hist, sharedVars,
                   firsts, lasts, headers_present, footers_present, pagenums_found,
                   rpagenums_found, cfg, pages, callVars>>

\* The loop is over and craft_html returns.
CraftDone ==
    /\ pc = "render"
    /\ blocks_index + 1 = Len(blocks)
    /\ pc' = "crafted"
    /\ UNCHANGED <<parserVars, sharedVars, ebookVars, renderVars, callVars>>

RenderNext ==
    CraftStart \/ IdentifyFirst \/ IdentifyLast \/ CraftStub \/ CraftBlock \/ CraftDone

SpecRender == RenderInit /\ [][RenderNext]_vars


\* The pieces of a markup in the content of the chapters.
Pieces(t) ==
    {p \in UNION {{<<c, i>> : i \in DOMAIN chapters[c].content} : c \in DOMAIN chapters} :
        chapters[p[1]].content[p[2]].tag = t}

TagCount(t) == Cardinality(Pieces(t))

TableParts == {"TableRow", "TableCell", "TableText"}

\* The block handled last is a TableText that ends its table.
TableJustEnded ==
    /\ pc \in {"render", "crafted"}
    /\ blocks_index >= 0
    /\ blocks[blocks_index + 1].type = "TableText"
    /\ \/ blocks_index + 1 = Len(blocks)
       \/ blocks[blocks_index + 2].type \notin TableParts

\* The next block of the loop is a Table.
TableIsNext ==
    /\ pc = "render"
    /\ blocks_index + 1 < Len(blocks)
    /\ blocks[blocks_index + 2].type = "Table"

\* C27: table tags are balanced: once the last TableText of a table has been
\* rendered, the content holds as many </td> as <td>, as many </tr> as <tr>
\* and as many </table> as <table>; and last_row and last_cell are both false
\* when the next Table block is about to be rendered.
C27_TableTagsBalanced ==
    /\ TableJustEnded
       => /\ TagCount("</td>") = TagCount("<td>")
          /\ TagCount("</tr>") = TagCount("<tr>")
          /\ TagCount("</table>") = TagCount("<table>")
    /\ TableIsNext => (~last_row /\ ~last_cell)

\* What does hold: no </tr> is ever written.
NoRowIsClosed == TagCount("</tr>") = 0

\* C29: every footnote that was given a note reference has its note text in
\* the content of a chapter by the time craft_html returns, those of the
\* last chapter included.
C29_NotesAttached ==
    pc = "crafted" => TagCount("rearnote") = TagCount("noteref")

\* What does hold: each note is either in a chapter's content or still in
\* the notes gathered for the next level-1 heading.
NotesAttachedOrPending ==
    pc \in {"render", "crafted"}
    => TagCount("rearnote") + (Len(endnotes) - 1) = TagCount("noteref")


\* Notes of a chapter that a level-1 heading follows are in its content.
SomeNotesAttached == pc = "crafted" /\ TagCount("rearnote") > 0

\* A table whose last paragraph was dropped leaves both flags set.
FlagsLeftSet == TableIsNext /\ last_row /\ last_cell

-----------------------------------------------------------------------------
(* is_increasing called on its own.                                        *)

IncInit ==
    /\ pc = "call"
    /\ arg \in SeqsUpTo(0..MaxVal, MaxLen)
    /\ result = "none"
    /\ ParserIdle /\ SharedIdle /\ EbookIdle /\ RenderIdle

CallIsIncreasing ==
    /\ pc = "call"
    /\ pc' = "returned"
    /\ result' = is_increasing(arg)
    /\ UNCHANGED <<arg, renderVars, parserVars, sharedVars, ebookVars>>

IncNext == CallIsIncreasing

SpecInc == IncInit /\ [][IncNext]_vars

\* C7: is_increasing(l) is true exactly when every element of l is strictly
\* smaller than its successor; so it is true of the empty list and of
\* single-element lists and false as soon as one adjacent pair is equal or
\* decreasing.
C7_IsIncreasingIffStrict ==
    pc = "returned" =>
        result = (\A i \in 1..(Len(arg) - 1) : arg[i] < arg[i + 1])

\* A list with an equal adjacent pair, such as [3,5,5,9], was rejected.
C7_Witness ==
    /\ pc = "returned"
    /\ Len(arg) >= 3
    /\ \E i \in 1..(Len(arg) - 1) : arg[i] = arg[i + 1]
    /\ \A i \in 1..(Len(arg) - 1) : arg[i] <= arg[i + 1]
    /\ result = FALSE

====
